---- MODULE Spec2Model ----
(***************************************************************************)
(* primrose-mcp-figma: a Cloudflare Worker exposing the Figma REST API as  *)
(* MCP tools.  The model covers the worker's fetch handler (src/index.ts), *)
(* the credential resolver (src/types/env.ts), the API client              *)
(* (src/client.ts), the tool handlers and the response formatters          *)
(* (src/utils/formatters.ts).                                              *)
(*                                                                         *)
(* JavaScript values are tagged records: [t |-> "str", s |-> ...],         *)
(* [t |-> "num", n |-> ...], [t |-> "obj", o |-> <record of values>], ...  *)
(* so that values of different JavaScript types stay comparable.           *)
(***************************************************************************)
EXTENDS Integers, Sequences, FiniteSets, TLC

(* ------------------------------------------------------------------ *)
(* Bounds of the model                                                 *)
(* ------------------------------------------------------------------ *)

\* Number of inbound requests / client users handled concurrently.
MaxRequests == 2

\* Longest Retry-After header value (in characters) the upstream sends.
MaxHeaderLen == 2

(* ------------------------------------------------------------------ *)
(* State                                                               *)
(* ------------------------------------------------------------------ *)

Requests == 1..MaxRequests

\* "Nothing here yet".
None == [none |-> TRUE]

VARIABLES
  pc,            \* where each request is: "idle", "mcp" (server built, handed to
                 \* the MCP transport), "client" (a client built directly through
                 \* createFigmaClient), "fetching" (awaiting fetch), "done"
  inbound,       \* the inbound HTTP request, None for a directly built client
  client,        \* the FigmaClientImpl instance built for the request
  registered,    \* the names of the tools registered on the request's server
  handedOff,     \* whether the request was handed to the MCP transport handler
  invocation,    \* the tool / client method being run: [tool, call]
  inflight,      \* the upstream fetch awaited: [url, method, body, headers]
  upstreamCalls, \* how many upstream fetches the invocation has issued
  upstream,      \* what the upstream answered: a Response, or a network failure
  requested,     \* what request() returned or threw
  outcome,       \* what the client method returned or threw
  envelope,      \* what the tool handler returned
  httpResponse,  \* the HTTP response the worker itself built
  agentInit,     \* what FigmaMcpAgent.init() returned or threw, None before it ran
  nextClientId   \* identities handed to the objects `new` creates

vars ==
  <<pc, inbound, client, registered, handedOff, invocation, inflight, upstreamCalls,
    upstream, requested, outcome, envelope, httpResponse, agentInit, nextClientId>>

(* ------------------------------------------------------------------ *)
(* JavaScript values                                                   *)
(* ------------------------------------------------------------------ *)

JUndefined == [t |-> "undefined"]

JNull == [t |-> "null"]

JStr(s) == [t |-> "str", s |-> s]

JBool(b) == [t |-> "bool", b |-> b]

\* A JavaScript number: an integer, or NaN.
JNum(n) == [t |-> "num", n |-> n, nan |-> FALSE]

NaN == [t |-> "num", n |-> 0, nan |-> TRUE]

JObj(o) == [t |-> "obj", o |-> o]

\* An array: a sequence of values.
JArr(a) == [t |-> "arr", a |-> a]

\* JavaScript truthiness, as used by `||`, `!` and `?:`.
Truthy(v) ==
  CASE v.t = "undefined" -> FALSE
    [] v.t = "null" -> FALSE
    [] v.t = "str" -> v.s # ""
    [] v.t = "bool" -> v.b
    [] v.t = "num" -> ~v.nan /\ v.n # 0
    [] OTHER -> TRUE

\* a || b
Or(a, b) == IF Truthy(a) THEN a ELSE b

\* Property read v.k on a non-null value: undefined when the key is missing
\* or the value is a primitive.
Get(v, k) == IF v.t = "obj" /\ k \in DOMAIN v.o THEN v.o[k] ELSE JUndefined

\* String(v) / template-literal coercion `${v}`.
String(v) ==
  CASE v.t = "undefined" -> "undefined"
    [] v.t = "null" -> "null"
    [] v.t = "str" -> v.s
    [] v.t = "bool" -> (IF v.b THEN "true" ELSE "false")
    [] v.t = "num" -> (IF v.nan THEN "NaN" ELSE ToString(v.n))
    [] OTHER -> "[object Object]"

(* ------------------------------------------------------------------ *)
(* HTTP header values and parseInt                                     *)
(* ------------------------------------------------------------------ *)

\* Headers.get(name): null when the header is absent, else its text.  A
\* header text is a sequence of characters.
HeaderAbsent == [present |-> FALSE, value |-> <<>>]

Header(chars) == [present |-> TRUE, value |-> chars]

\* `h ? a : b` on the result of Headers.get: null and "" are falsy.
HeaderTruthy(h) == h.present /\ h.value # <<>>

Digits == {"0", "1", "2", "3", "4", "5", "6", "7", "8", "9"}

DigitValue(c) ==
  CASE c = "0" -> 0 [] c = "1" -> 1 [] c = "2" -> 2 [] c = "3" -> 3
    [] c = "4" -> 4 [] c = "5" -> 5 [] c = "6" -> 6 [] c = "7" -> 7
    [] c = "8" -> 8 [] c = "9" -> 9

RECURSIVE SkipSpace(_)
SkipSpace(cs) == IF cs # <<>> /\ Head(cs) = " " THEN SkipSpace(Tail(cs)) ELSE cs

\* The longest prefix of digits of cs.
RECURSIVE DigitPrefix(_)
DigitPrefix(cs) ==
  IF cs # <<>> /\ Head(cs) \in Digits
  THEN <<Head(cs)>> \o DigitPrefix(Tail(cs))
  ELSE <<>>

RECURSIVE DigitsValue(_, _)
DigitsValue(ds, acc) ==
  IF ds = <<>> THEN acc ELSE DigitsValue(Tail(ds), 10 * acc + DigitValue(Head(ds)))

\* parseInt(text, 10): leading white space is skipped, an optional sign is
\* read, then the longest run of decimal digits; NaN when there is none.
parseInt(cs) ==
  LET s == SkipSpace(cs)
      neg == s # <<>> /\ Head(s) = "-"
      signed == s # <<>> /\ Head(s) \in {"-", "+"}
      rest == IF signed THEN Tail(s) ELSE s
      ds == DigitPrefix(rest)
  IN IF ds = <<>> THEN NaN
     ELSE JNum(IF neg THEN 0 - DigitsValue(ds, 0) ELSE DigitsValue(ds, 0))

(* ------------------------------------------------------------------ *)
(* JSON                                                                *)
(* ------------------------------------------------------------------ *)

\* Bodies the upstream may send, as raw text.
JsonBodies ==
  { "null",
    "{}",
    "{\"id\":\"u1\",\"handle\":\"ann\"}",
    "{\"message\":\"m1\"}",
    "{\"err\":\"e1\"}",
    "{\"error\":\"x1\"}",
    "{\"message\":\"m1\",\"err\":\"e1\",\"error\":\"x1\"}",
    "{\"err\":\"e1\",\"error\":\"x1\"}",
    "{\"message\":\"\",\"err\":\"e1\"}",
    "{\"error\":true,\"status\":500,\"message\":\"m1\"}",
    "\"plain\"" }

NonJsonBodies == { "", "<html>Bad Gateway</html>" }

BodyTexts == JsonBodies \cup NonJsonBodies

\* The outcome of a step that returns a value or throws.
Return(v) == [ok |-> TRUE, value |-> v]

Throw(e) == [ok |-> FALSE, error |-> e]

\* The errors the language runtime raises.
SyntaxError == [kind |-> "SyntaxError", message |-> JStr("Unexpected token in JSON")]

TypeError(m) == [kind |-> "TypeError", message |-> JStr(m)]

\* JSON.parse(text): the parsed value, or a SyntaxError.
JSONParse(text) ==
  CASE text = "null" -> Return(JNull)
    [] text = "{}" -> Return(JObj(<<>>))
    [] text = "{\"id\":\"u1\",\"handle\":\"ann\"}" ->
         Return(JObj([id |-> JStr("u1"), handle |-> JStr("ann")]))
    [] text = "{\"message\":\"m1\"}" -> Return(JObj([message |-> JStr("m1")]))
    [] text = "{\"err\":\"e1\"}" -> Return(JObj([err |-> JStr("e1")]))
    [] text = "{\"error\":\"x1\"}" -> Return(JObj([error |-> JStr("x1")]))
    [] text = "{\"message\":\"m1\",\"err\":\"e1\",\"error\":\"x1\"}" ->
         Return(JObj([message |-> JStr("m1"), err |-> JStr("e1"), error |-> JStr("x1")]))
    [] text = "{\"err\":\"e1\",\"error\":\"x1\"}" ->
         Return(JObj([err |-> JStr("e1"), error |-> JStr("x1")]))
    [] text = "{\"message\":\"\",\"err\":\"e1\"}" ->
         Return(JObj([message |-> JStr(""), err |-> JStr("e1")]))
    [] text = "{\"error\":true,\"status\":500,\"message\":\"m1\"}" ->
         Return(JObj([error |-> JBool(TRUE), status |-> JNum(500), message |-> JStr("m1")]))
    [] text = "\"plain\"" -> Return(JStr("plain"))
    [] OTHER -> Throw(SyntaxError)

\* The value a JSON text of v carries: properties whose value is undefined
\* are left out, undefined array elements and NaN become null.
RECURSIVE JsonValue(_)
JsonValue(v) ==
  CASE v.t = "obj" ->
         JObj([k \in {n \in DOMAIN v.o : v.o[n] # JUndefined} |-> JsonValue(v.o[k])])
    [] v.t = "arr" ->
         JArr([i \in DOMAIN v.a |-> IF v.a[i] = JUndefined THEN JNull ELSE JsonValue(v.a[i])])
    [] v.t = "num" -> (IF v.nan THEN JNull ELSE v)
    [] OTHER -> v

\* JSON.stringify(v): undefined for undefined, else the string serialising v
\* (a string value that holds the JSON value it denotes).
JSONStringify(v) ==
  IF v.t = "undefined" THEN JUndefined ELSE [t |-> "str", json |-> JsonValue(v)]

(* ------------------------------------------------------------------ *)
(* Error taxonomy (utils/errors.js)                                    *)
(* ------------------------------------------------------------------ *)

\* new Error(message)
Error(m) == [kind |-> "Error", message |-> JStr(m)]

\* The five error kinds of the client.  Each constructor keeps what it is
\* given; the not-found error carries the resource kind and the path.
AuthenticationError(m) == [kind |-> "AuthenticationError", message |-> JStr(m)]

ForbiddenError(m) == [kind |-> "ForbiddenError", message |-> JStr(m)]

NotFoundError(resource, path) ==
  [kind |-> "NotFoundError", message |-> JStr(resource \o " not found: " \o path),
   resource |-> resource, path |-> path]

RateLimitError(m, retryAfter) ==
  [kind |-> "RateLimitError", message |-> JStr(m), retryAfter |-> retryAfter]

\* The message is whatever value the caller passes (not always a string).
FigmaApiError(m, status) == [kind |-> "FigmaApiError", message |-> m, status |-> status]

ClientErrorKinds ==
  {"AuthenticationError", "ForbiddenError", "NotFoundError", "RateLimitError", "FigmaApiError"}

\* error instanceof FigmaApiError: the client's error kinds share that base.
IsFigmaApiError(e) == e.kind \in ClientErrorKinds

\* error.retryable: throttling and server faults are worth retrying.
retryable(e) ==
  \/ e.kind = "RateLimitError"
  \/ e.kind = "FigmaApiError" /\ e.status >= 500

\* formatErrorForLogging(error): a structured description of the error.
formatErrorForLogging(e) == JObj([name |-> JStr(e.kind), message |-> e.message])

(* ------------------------------------------------------------------ *)
(* Credential resolver (src/types/env.ts)                              *)
(* ------------------------------------------------------------------ *)

\* An inbound HTTP request: method, path and the two credential headers
\* (JNull when the header is absent, as Headers.get returns).
Request(method, pathname, token, baseUrl) ==
  [method |-> method, pathname |-> pathname,
   headers |-> [XFigmaToken |-> token, XFigmaBaseURL |-> baseUrl]]

\* Mutant: `??` in place of `||`: only an absent header becomes undefined.
parseTenantCredentials_Nullish(request) ==
  [accessToken |-> IF request.headers.XFigmaToken = JNull
                   THEN JUndefined ELSE request.headers.XFigmaToken,
   baseUrl |-> IF request.headers.XFigmaBaseURL = JNull
               THEN JUndefined ELSE request.headers.XFigmaBaseURL]

parseTenantCredentials(request) ==
  [accessToken |-> Or(request.headers.XFigmaToken, JUndefined),
   baseUrl |-> Or(request.headers.XFigmaBaseURL, JUndefined)]

\* Mutant: the presence check is dropped.
validateCredentials_Unchecked(credentials) == Return(JUndefined)

validateCredentials(credentials) ==
  IF ~Truthy(credentials.accessToken)
  THEN Throw(Error("Missing credentials. Provide X-Figma-Token header with your Figma personal access token."))
  ELSE Return(JUndefined)

(* ------------------------------------------------------------------ *)
(* API client (src/client.ts)                                          *)
(* ------------------------------------------------------------------ *)

FIGMA_API_BASE_URL == "https://api.figma.com"

\* Mutant: the override of the base URL is ignored.
FigmaClientImpl_DefaultOnly(id, credentials) ==
  [id |-> id, credentials |-> credentials, baseUrl |-> FIGMA_API_BASE_URL]

\* new FigmaClientImpl(credentials); id is the identity of the new object.
FigmaClientImpl(id, credentials) ==
  [id |-> id,
   credentials |-> credentials,
   baseUrl |-> Or(credentials.baseUrl, JStr(FIGMA_API_BASE_URL)).s]

createFigmaClient(id, credentials) == FigmaClientImpl(id, credentials)

\* Mutant: the re-check at the point of use is dropped.
getAuthHeaders_Unchecked(this) ==
  Return([XFigmaToken |-> String(this.credentials.accessToken),
          ContentType |-> "application/json"])

getAuthHeaders(this) ==
  IF ~Truthy(this.credentials.accessToken)
  THEN Throw(AuthenticationError("No credentials provided. Include X-Figma-Token header with your Figma personal access token."))
  ELSE Return([XFigmaToken |-> this.credentials.accessToken.s,
               ContentType |-> "application/json"])

\* request(), up to the call of fetch: the arguments of fetch are evaluated
\* first, so a throw of getAuthHeaders leaves fetch uncalled.
requestFetch(this, endpoint, options) ==
  LET url == this.baseUrl \o endpoint
      headers == getAuthHeaders(this)
  IN IF ~headers.ok THEN headers
     ELSE Return([url |-> url, method |-> options.method, body |-> options.body,
                  headers |-> headers.value])

\* The HTTP method of a fetch(url, init): GET when init names none.
FetchMethod(init) == IF init.method = JUndefined THEN "GET" ELSE String(init.method)

\* An upstream response: status, Retry-After header and body text.
Response(status, retryAfter, body) ==
  [status |-> status, retryAfter |-> retryAfter, body |-> body]

\* response.ok
ResponseOk(response) == response.status >= 200 /\ response.status <= 299

\* Mutant: `error` is tried before `err`.
ErrorBodyMessage_Swapped(response) ==
  LET message == JStr("API error: " \o ToString(response.status))
      errorJson == JSONParse(response.body)
  IN IF ~errorJson.ok THEN message
     ELSE IF errorJson.value.t = "null" THEN message
     ELSE Or(Get(errorJson.value, "message"),
             Or(Get(errorJson.value, "error"),
                Or(Get(errorJson.value, "err"), message)))

\* The message of the generic API error, read from the error body.
ErrorBodyMessage(response) ==
  LET message == JStr("API error: " \o ToString(response.status))
      errorJson == JSONParse(response.body)
  IN IF ~errorJson.ok THEN message
     ELSE IF errorJson.value.t = "null" THEN message
     ELSE Or(Get(errorJson.value, "message"),
             Or(Get(errorJson.value, "err"),
                Or(Get(errorJson.value, "error"), message)))

\* Mutant: the 403 row of the table is missing.
requestSettle_No403(endpoint, response) ==
  IF response.status = 429
  THEN Throw(RateLimitError("Rate limit exceeded",
               IF HeaderTruthy(response.retryAfter)
               THEN parseInt(response.retryAfter.value)
               ELSE JNum(60)))
  ELSE IF response.status = 401
  THEN Throw(AuthenticationError("Authentication failed. Check your Figma personal access token."))
  ELSE IF response.status = 404
  THEN Throw(NotFoundError("Resource", endpoint))
  ELSE IF ~ResponseOk(response)
  THEN Throw(FigmaApiError(ErrorBodyMessage(response), response.status))
  ELSE IF response.status = 204
  THEN Return(JUndefined)
  ELSE JSONParse(response.body)

\* Mutant: the 204 row of the table is missing.
requestSettle_No204(endpoint, response) ==
  IF response.status = 429
  THEN Throw(RateLimitError("Rate limit exceeded",
               IF HeaderTruthy(response.retryAfter)
               THEN parseInt(response.retryAfter.value)
               ELSE JNum(60)))
  ELSE IF response.status = 401
  THEN Throw(AuthenticationError("Authentication failed. Check your Figma personal access token."))
  ELSE IF response.status = 403
  THEN Throw(ForbiddenError("Access forbidden. You may not have permission to access this resource."))
  ELSE IF response.status = 404
  THEN Throw(NotFoundError("Resource", endpoint))
  ELSE IF ~ResponseOk(response)
  THEN Throw(FigmaApiError(ErrorBodyMessage(response), response.status))
  ELSE JSONParse(response.body)

\* Mutant: a body that does not parse is reported as a FigmaApiError.
requestSettle_ClassifiesParse(endpoint, response) ==
  IF response.status = 429
  THEN Throw(RateLimitError("Rate limit exceeded",
               IF HeaderTruthy(response.retryAfter)
               THEN parseInt(response.retryAfter.value)
               ELSE JNum(60)))
  ELSE IF response.status = 401
  THEN Throw(AuthenticationError("Authentication failed. Check your Figma personal access token."))
  ELSE IF response.status = 403
  THEN Throw(ForbiddenError("Access forbidden. You may not have permission to access this resource."))
  ELSE IF response.status = 404
  THEN Throw(NotFoundError("Resource", endpoint))
  ELSE IF ~ResponseOk(response)
  THEN Throw(FigmaApiError(ErrorBodyMessage(response), response.status))
  ELSE IF response.status = 204
  THEN Return(JUndefined)
  ELSE IF ~JSONParse(response.body).ok
  THEN Throw(FigmaApiError(JStr("Invalid JSON in response"), response.status))
  ELSE JSONParse(response.body)

\* request(), from the arrival of the response: the decision table.
requestSettle(endpoint, response) ==
  IF response.status = 429
  THEN Throw(RateLimitError("Rate limit exceeded",
               IF HeaderTruthy(response.retryAfter)
               THEN parseInt(response.retryAfter.value)
               ELSE JNum(60)))
  ELSE IF response.status = 401
  THEN Throw(AuthenticationError("Authentication failed. Check your Figma personal access token."))
  ELSE IF response.status = 403
  THEN Throw(ForbiddenError("Access forbidden. You may not have permission to access this resource."))
  ELSE IF response.status = 404
  THEN Throw(NotFoundError("Resource", endpoint))
  ELSE IF ~ResponseOk(response)
  THEN Throw(FigmaApiError(ErrorBodyMessage(response), response.status))
  ELSE IF response.status = 204
  THEN Return(JUndefined)
  ELSE JSONParse(response.body)

\* fetch() rejecting: the network failed before any response arrived.
FetchRejected == Throw(TypeError("fetch failed"))

(* ------------------------------------------------------------------ *)
(* Query strings (URLSearchParams) and Array.prototype.join            *)
(* ------------------------------------------------------------------ *)

\* The texts that application/x-www-form-urlencoded leaves as they are:
\* letters, digits and "*", "-", ".", "_" only.
UnreservedTexts ==
  {"", "version", "ids", "depth", "geometry", "plugin_data", "branch_data",
   "scale", "format", "svg_include_id", "svg_include_node_id",
   "svg_simplify_stroke", "contents_only", "use_absolute_bounds",
   "page_size", "cursor", "as_md", "emoji", "team_id", "node_ids",
   "event_type", "limit", "order", "user_ids",
   "true", "0", "1", "2", "50", "v7", "png", "paths", "shared", "cur1",
   "T1", "FILE_UPDATE", "asc", "u1"}

\* The serialisation of one name or value by URLSearchParams.toString():
\* every byte outside the unreserved ones is percent-encoded.
FormEncode(s) ==
  CASE s \in UnreservedTexts -> s
    [] s = "1:2" -> "1%3A2"
    [] s = "1:2,1:3" -> "1%3A2%2C1%3A3"
    [] s = "u1,u2" -> "u1%2Cu2"
    [] s = ":+1:" -> "%3A%2B1%3A"

\* params.set(name, value): the value of an entry of that name is replaced,
\* else the pair is appended.
ParamsSet(params, name, value) ==
  IF \E i \in DOMAIN params : params[i][1] = name
  THEN [i \in DOMAIN params |-> IF params[i][1] = name THEN <<name, value>> ELSE params[i]]
  ELSE Append(params, <<name, value>>)

\* params.toString(): the encoded pairs "name=value", joined by "&".
RECURSIVE ParamsToString(_)
ParamsToString(params) ==
  IF params = <<>> THEN ""
  ELSE FormEncode(params[1][1]) \o "=" \o FormEncode(params[1][2])
       \o (IF Len(params) > 1 THEN "&" \o ParamsToString(Tail(params)) ELSE "")

\* a.join(separator) of an array of strings.
RECURSIVE Join(_, _)
Join(a, separator) ==
  IF a = <<>> THEN ""
  ELSE String(a[1]) \o (IF Len(a) > 1 THEN separator \o Join(Tail(a), separator) ELSE "")

(* ------------------------------------------------------------------ *)
(* Client methods (src/client.ts): the request each one makes          *)
(* ------------------------------------------------------------------ *)

\* options = {}: fetch then uses its default method, GET, and sends no body.
NoOptions == [method |-> JUndefined, body |-> JUndefined]

Options(method, body) == [method |-> JStr(method), body |-> body]

\* A method call: its name, the endpoint and options it hands to request(),
\* and how it returns ("value": return this.request(...); "void": await
\* this.request(...) and return nothing; "connection": testConnection).
Call(method, endpoint, options, returns) ==
  [method |-> method, endpoint |-> endpoint, options |-> options, returns |-> returns]

\* Mutant: the "?" is appended whether or not a parameter was set.
OptionalQuery_AlwaysMark(call, params, options) ==
  [call EXCEPT !.endpoint = @ \o "?" \o ParamsToString(params)]
    @@ [path |-> call.endpoint, params |-> params, given |-> options]

\* `${path}${query ? `?${query}` : ''}` with query = params.toString(): the
\* call to request() of a method whose parameters are all optional. The
\* record also keeps the path, the parameters set and the options given.
OptionalQuery(call, params, options) ==
  LET query == ParamsToString(params)
  IN  [call EXCEPT !.endpoint = @ \o (IF query # "" THEN "?" \o query ELSE "")]
        @@ [path |-> call.endpoint, params |-> params, given |-> options]

\* `${path}?${params.toString()}`: the call to request() of a method that
\* always sets a parameter.
MandatoryQuery(call, params, options) ==
  [call EXCEPT !.endpoint = @ \o "?" \o ParamsToString(params)]
    @@ [path |-> call.endpoint, params |-> params, given |-> options]

\* The methods with an optional `options` argument take it as a JavaScript
\* value: undefined when the caller leaves it out, else an object whose
\* fields may themselves be undefined.

\* Mutant: depth is sent only when it is truthy, so a depth of 0 is dropped.
getFile_DepthIfTruthy(fileKey, options) ==
  LET p1 == IF Truthy(Get(options, "version"))
            THEN ParamsSet(<<>>, "version", String(Get(options, "version"))) ELSE <<>>
      p2 == IF Truthy(Get(options, "ids"))
            THEN ParamsSet(p1, "ids", Join(Get(options, "ids").a, ",")) ELSE p1
      p3 == IF Truthy(Get(options, "depth"))
            THEN ParamsSet(p2, "depth", String(Get(options, "depth"))) ELSE p2
      p4 == IF Truthy(Get(options, "geometry"))
            THEN ParamsSet(p3, "geometry", String(Get(options, "geometry"))) ELSE p3
      p5 == IF Truthy(Get(options, "plugin_data"))
            THEN ParamsSet(p4, "plugin_data", String(Get(options, "plugin_data"))) ELSE p4
      params == IF Truthy(Get(options, "branch_data"))
                THEN ParamsSet(p5, "branch_data", "true") ELSE p5
  IN  OptionalQuery(Call("getFile", "/v1/files/" \o fileKey, NoOptions, "value"), params, options)

getFile(fileKey, options) ==
  LET p1 == IF Truthy(Get(options, "version"))
            THEN ParamsSet(<<>>, "version", String(Get(options, "version"))) ELSE <<>>
      p2 == IF Truthy(Get(options, "ids"))
            THEN ParamsSet(p1, "ids", Join(Get(options, "ids").a, ",")) ELSE p1
      p3 == IF Get(options, "depth") # JUndefined
            THEN ParamsSet(p2, "depth", String(Get(options, "depth"))) ELSE p2
      p4 == IF Truthy(Get(options, "geometry"))
            THEN ParamsSet(p3, "geometry", String(Get(options, "geometry"))) ELSE p3
      p5 == IF Truthy(Get(options, "plugin_data"))
            THEN ParamsSet(p4, "plugin_data", String(Get(options, "plugin_data"))) ELSE p4
      params == IF Truthy(Get(options, "branch_data"))
                THEN ParamsSet(p5, "branch_data", "true") ELSE p5
  IN  OptionalQuery(Call("getFile", "/v1/files/" \o fileKey, NoOptions, "value"), params, options)

getFileNodes(fileKey, ids, options) ==
  LET p1 == ParamsSet(<<>>, "ids", Join(ids.a, ","))
      p2 == IF Truthy(Get(options, "version"))
            THEN ParamsSet(p1, "version", String(Get(options, "version"))) ELSE p1
      p3 == IF Get(options, "depth") # JUndefined
            THEN ParamsSet(p2, "depth", String(Get(options, "depth"))) ELSE p2
      p4 == IF Truthy(Get(options, "geometry"))
            THEN ParamsSet(p3, "geometry", String(Get(options, "geometry"))) ELSE p3
      params == IF Truthy(Get(options, "plugin_data"))
                THEN ParamsSet(p4, "plugin_data", String(Get(options, "plugin_data"))) ELSE p4
  IN  MandatoryQuery(Call("getFileNodes", "/v1/files/" \o fileKey \o "/nodes", NoOptions, "value"),
                     params, options)

getFileMeta(fileKey) == Call("getFileMeta", "/v1/files/" \o fileKey \o "/meta", NoOptions, "value")

getImages(fileKey, ids, options) ==
  LET p1 == ParamsSet(<<>>, "ids", Join(ids.a, ","))
      p2 == IF Get(options, "scale") # JUndefined
            THEN ParamsSet(p1, "scale", String(Get(options, "scale"))) ELSE p1
      p3 == IF Truthy(Get(options, "format"))
            THEN ParamsSet(p2, "format", String(Get(options, "format"))) ELSE p2
      p4 == IF Truthy(Get(options, "svg_include_id"))
            THEN ParamsSet(p3, "svg_include_id", "true") ELSE p3
      p5 == IF Truthy(Get(options, "svg_include_node_id"))
            THEN ParamsSet(p4, "svg_include_node_id", "true") ELSE p4
      p6 == IF Truthy(Get(options, "svg_simplify_stroke"))
            THEN ParamsSet(p5, "svg_simplify_stroke", "true") ELSE p5
      p7 == IF Truthy(Get(options, "contents_only"))
            THEN ParamsSet(p6, "contents_only", "true") ELSE p6
      p8 == IF Truthy(Get(options, "use_absolute_bounds"))
            THEN ParamsSet(p7, "use_absolute_bounds", "true") ELSE p7
      params == IF Truthy(Get(options, "version"))
                THEN ParamsSet(p8, "version", String(Get(options, "version"))) ELSE p8
  IN  MandatoryQuery(Call("getImages", "/v1/images/" \o fileKey, NoOptions, "value"),
                     params, options)

getImageFills(fileKey) ==
  Call("getImageFills", "/v1/files/" \o fileKey \o "/images", NoOptions, "value")

\* Mutant: page_size is sent whenever it is defined, 0 included.
PaginationParams_Defined(options) ==
  LET p1 == IF Get(options, "page_size") # JUndefined
            THEN ParamsSet(<<>>, "page_size", String(Get(options, "page_size"))) ELSE <<>>
  IN  IF Truthy(Get(options, "cursor"))
      THEN ParamsSet(p1, "cursor", String(Get(options, "cursor"))) ELSE p1

\* The query of the paginated listings: page_size and cursor, each when truthy.
PaginationParams(options) ==
  LET p1 == IF Truthy(Get(options, "page_size"))
            THEN ParamsSet(<<>>, "page_size", String(Get(options, "page_size"))) ELSE <<>>
  IN  IF Truthy(Get(options, "cursor"))
      THEN ParamsSet(p1, "cursor", String(Get(options, "cursor"))) ELSE p1

\* The query of the listings that take a cursor only.
CursorParams(options) ==
  IF Truthy(Get(options, "cursor"))
  THEN ParamsSet(<<>>, "cursor", String(Get(options, "cursor"))) ELSE <<>>

getFileVersions(fileKey, options) ==
  OptionalQuery(Call("getFileVersions", "/v1/files/" \o fileKey \o "/versions", NoOptions, "value"),
                PaginationParams(options), options)

getComments(fileKey, options) ==
  OptionalQuery(Call("getComments", "/v1/files/" \o fileKey \o "/comments", NoOptions, "value"),
                IF Truthy(Get(options, "as_md")) THEN ParamsSet(<<>>, "as_md", "true") ELSE <<>>,
                options)

postComment(fileKey, message, options) ==
  Call("postComment", "/v1/files/" \o fileKey \o "/comments",
       Options("POST", JSONStringify(JObj([message |-> JStr(message),
                                           comment_id |-> Get(options, "comment_id"),
                                           client_meta |-> Get(options, "client_meta")]))),
       "value")
    @@ [given |-> options]

deleteComment(fileKey, commentId) ==
  Call("deleteComment", "/v1/files/" \o fileKey \o "/comments/" \o commentId,
       Options("DELETE", JUndefined), "void")

getCommentReactions(fileKey, commentId, options) ==
  OptionalQuery(Call("getCommentReactions",
                     "/v1/files/" \o fileKey \o "/comments/" \o commentId \o "/reactions",
                     NoOptions, "value"),
                CursorParams(options), options)

postCommentReaction(fileKey, commentId, emoji) ==
  Call("postCommentReaction",
       "/v1/files/" \o fileKey \o "/comments/" \o commentId \o "/reactions",
       Options("POST", JSONStringify(JObj([emoji |-> JStr(emoji)]))), "void")

deleteCommentReaction(fileKey, commentId, emoji) ==
  Call("deleteCommentReaction",
       "/v1/files/" \o fileKey \o "/comments/" \o commentId \o "/reactions?"
         \o ParamsToString(ParamsSet(<<>>, "emoji", emoji)),
       Options("DELETE", JUndefined), "void")

getMe == Call("getMe", "/v1/me", NoOptions, "value")

\* testConnection() awaits this.getMe() and wraps its outcome.
testConnectionCall == Call("testConnection", getMe.endpoint, getMe.options, "connection")

getTeamProjects(teamId) ==
  Call("getTeamProjects", "/v1/teams/" \o teamId \o "/projects", NoOptions, "value")

getProjectFiles(projectId, options) ==
  OptionalQuery(Call("getProjectFiles", "/v1/projects/" \o projectId \o "/files", NoOptions, "value"),
                IF Truthy(Get(options, "branch_data"))
                THEN ParamsSet(<<>>, "branch_data", "true") ELSE <<>>,
                options)

getTeamComponents(teamId, options) ==
  OptionalQuery(Call("getTeamComponents", "/v1/teams/" \o teamId \o "/components", NoOptions, "value"),
                PaginationParams(options), options)

getFileComponents(fileKey) ==
  Call("getFileComponents", "/v1/files/" \o fileKey \o "/components", NoOptions, "value")

getComponent(componentKey) ==
  Call("getComponent", "/v1/components/" \o componentKey, NoOptions, "value")

getTeamComponentSets(teamId, options) ==
  OptionalQuery(Call("getTeamComponentSets", "/v1/teams/" \o teamId \o "/component_sets",
                     NoOptions, "value"),
                PaginationParams(options), options)

getFileComponentSets(fileKey) ==
  Call("getFileComponentSets", "/v1/files/" \o fileKey \o "/component_sets", NoOptions, "value")

getComponentSet(componentSetKey) ==
  Call("getComponentSet", "/v1/component_sets/" \o componentSetKey, NoOptions, "value")

getTeamStyles(teamId, options) ==
  OptionalQuery(Call("getTeamStyles", "/v1/teams/" \o teamId \o "/styles", NoOptions, "value"),
                PaginationParams(options), options)

getFileStyles(fileKey) ==
  Call("getFileStyles", "/v1/files/" \o fileKey \o "/styles", NoOptions, "value")

getStyle(styleKey) == Call("getStyle", "/v1/styles/" \o styleKey, NoOptions, "value")

getWebhooks(options) ==
  OptionalQuery(Call("getWebhooks", "/v2/webhooks", NoOptions, "value"),
                IF Truthy(Get(options, "team_id"))
                THEN ParamsSet(<<>>, "team_id", String(Get(options, "team_id"))) ELSE <<>>,
                options)

\* Mutant: the input is handed to fetch as it is, under the default method.
createWebhook_Unserialised(input) ==
  Call("createWebhook", "/v2/webhooks", [method |-> JUndefined, body |-> input], "value")
    @@ [input |-> input]

createWebhook(input) ==
  Call("createWebhook", "/v2/webhooks", Options("POST", JSONStringify(input)), "value")
    @@ [input |-> input]

getWebhook(webhookId) == Call("getWebhook", "/v2/webhooks/" \o webhookId, NoOptions, "value")

updateWebhook(webhookId, input) ==
  Call("updateWebhook", "/v2/webhooks/" \o webhookId, Options("PUT", JSONStringify(input)), "value")

deleteWebhook(webhookId) ==
  Call("deleteWebhook", "/v2/webhooks/" \o webhookId, Options("DELETE", JUndefined), "void")

getWebhookRequests(webhookId) ==
  Call("getWebhookRequests", "/v2/webhooks/" \o webhookId \o "/requests", NoOptions, "value")

getLocalVariables(fileKey) ==
  Call("getLocalVariables", "/v1/files/" \o fileKey \o "/variables/local", NoOptions, "value")

getPublishedVariables(fileKey) ==
  Call("getPublishedVariables", "/v1/files/" \o fileKey \o "/variables/published", NoOptions, "value")

postVariables(fileKey, payload) ==
  Call("postVariables", "/v1/files/" \o fileKey \o "/variables",
       Options("POST", JSONStringify(payload)), "value")

getDevResources(fileKey, options) ==
  OptionalQuery(Call("getDevResources", "/v1/files/" \o fileKey \o "/dev_resources",
                     NoOptions, "value"),
                IF Truthy(Get(options, "node_ids"))
                THEN ParamsSet(<<>>, "node_ids", Join(Get(options, "node_ids").a, ","))
                ELSE <<>>,
                options)

createDevResources(resources) ==
  Call("createDevResources", "/v1/dev_resources",
       Options("POST", JSONStringify(JObj([dev_resources |-> resources]))), "value")

updateDevResources(resources) ==
  Call("updateDevResources", "/v1/dev_resources",
       Options("PUT", JSONStringify(JObj([dev_resources |-> resources]))), "value")

deleteDevResource(fileKey, devResourceId) ==
  Call("deleteDevResource", "/v1/files/" \o fileKey \o "/dev_resources/" \o devResourceId,
       Options("DELETE", JUndefined), "void")

getActivityLogs(options) ==
  LET p1 == IF Truthy(Get(options, "event_type"))
            THEN ParamsSet(<<>>, "event_type", String(Get(options, "event_type"))) ELSE <<>>
      p2 == IF Truthy(Get(options, "limit"))
            THEN ParamsSet(p1, "limit", String(Get(options, "limit"))) ELSE p1
      params == IF Truthy(Get(options, "order"))
                THEN ParamsSet(p2, "order", String(Get(options, "order"))) ELSE p2
  IN  OptionalQuery(Call("getActivityLogs", "/v1/activity_logs", NoOptions, "value"),
                    params, options)

getPayments(options) ==
  OptionalQuery(Call("getPayments", "/v1/payments", NoOptions, "value"),
                IF Truthy(Get(options, "user_ids"))
                THEN ParamsSet(<<>>, "user_ids", Join(Get(options, "user_ids").a, ","))
                ELSE <<>>,
                options)

getComponentActions(fileKey, options) ==
  OptionalQuery(Call("getComponentActions",
                     "/v1/analytics/libraries/" \o fileKey \o "/component/actions",
                     NoOptions, "value"),
                CursorParams(options), options)

getComponentUsages(fileKey, options) ==
  OptionalQuery(Call("getComponentUsages",
                     "/v1/analytics/libraries/" \o fileKey \o "/component/usages",
                     NoOptions, "value"),
                CursorParams(options), options)

getStyleActions(fileKey, options) ==
  OptionalQuery(Call("getStyleActions",
                     "/v1/analytics/libraries/" \o fileKey \o "/style/actions",
                     NoOptions, "value"),
                CursorParams(options), options)

getStyleUsages(fileKey, options) ==
  OptionalQuery(Call("getStyleUsages",
                     "/v1/analytics/libraries/" \o fileKey \o "/style/usages",
                     NoOptions, "value"),
                CursorParams(options), options)

\* `await this.request<void>(...)`: the parsed body is dropped; a throw of
\* request() still propagates.
awaitVoid(res) == IF res.ok THEN Return(JUndefined) ELSE res

\* Mutant: the failure of getMe() is not caught.
testConnection_Rethrows(me) ==
  IF me.ok
  THEN Return(JObj([connected |-> JBool(TRUE),
                    message |-> JStr("Successfully connected to Figma API"),
                    user |-> me.value]))
  ELSE me

\* testConnection(), given the outcome of this.getMe().
testConnection(me) ==
  IF me.ok
  THEN Return(JObj([connected |-> JBool(TRUE),
                    message |-> JStr("Successfully connected to Figma API"),
                    user |-> me.value]))
  ELSE Return(JObj([connected |-> JBool(FALSE), message |-> me.error.message]))

\* Mutant: every method awaits request() without returning its value.
methodOutcome_DropsValue(call, res) ==
  CASE call.returns = "connection" -> testConnection(res)
    [] OTHER -> awaitVoid(res)

\* What the method hands its caller, given the outcome of request().
methodOutcome(call, res) ==
  CASE call.returns = "void" -> awaitVoid(res)
    [] call.returns = "connection" -> testConnection(res)
    [] OTHER -> res

(* ------------------------------------------------------------------ *)
(* Response formatters (src/utils/formatters.ts)                       *)
(* ------------------------------------------------------------------ *)

\* { content: [{ type: 'text', text }] }
Envelope(text) == [content |-> <<[type |-> "text", text |-> text]>>]

\* { content: [{ type: 'text', text }], isError: true }
ErrorEnvelope(text) == [content |-> <<[type |-> "text", text |-> text]>>, isError |-> TRUE]

formatResponse(data) == Envelope(JSONStringify(data))

\* Mutant: the failure text is the bare message, not a JSON object.
formatError_PlainText(error) == ErrorEnvelope(JStr("Error: " \o String(error.message)))

formatError(error) ==
  LET errorInfo == formatErrorForLogging(error)
      message ==
        IF IsFigmaApiError(error)
        THEN "Error: " \o String(error.message)
               \o (IF retryable(error) THEN " (retryable)" ELSE "")
        ELSE "Error: " \o String(error.message)
  IN ErrorEnvelope(JSONStringify(JObj([error |-> JStr(message), details |-> errorInfo])))

formatSuccess(message, data) ==
  LET result ==
        IF data # JUndefined
        THEN JObj([success |-> JBool(TRUE), message |-> JStr(message), data |-> data])
        ELSE JObj([success |-> JBool(TRUE), message |-> JStr(message)])
  IN Envelope(JSONStringify(result))

(* ------------------------------------------------------------------ *)
(* Tool registry                                                       *)
(* ------------------------------------------------------------------ *)

\* A registered tool: its name, the client call its handler makes for the
\* arguments of the invocation, and what the handler returns on success
\* ("formatResponse": the result; "formatSuccess": a fixed message).
Tool(name, call, onSuccess, message) ==
  [name |-> name, call |-> call, onSuccess |-> onSuccess, message |-> message]

\* Arguments of the modelled invocations.
FileKey == "abc123"

NodeIds == JArr(<<JStr("1:2"), JStr("1:3")>>)

TeamId == "T1"

ProjectId == "P1"

CommentId == "c7"

Emoji == ":+1:"

ComponentKey == "k9"

WebhookId == "w5"

DevResourceId == "d4"

WebhookInput ==
  JObj([event_type |-> JStr("FILE_UPDATE"), team_id |-> JStr(TeamId),
        endpoint |-> JStr("https://x"), passcode |-> JStr("p")])

\* The optional arguments of a tool are left out in the modelled
\* invocations: the handler then passes them on as undefined fields.
Cursorless == JObj([cursor |-> JUndefined])

Pageless == JObj([page_size |-> JUndefined, cursor |-> JUndefined])

\* Mutant: the coordinates count only when they are truthy, so 0 does not.
client_meta_Truthy(node_id, x, y) ==
  IF Truthy(node_id) \/ Truthy(x) \/ Truthy(y)
  THEN JObj([node_id |-> node_id, x |-> x, y |-> y])
  ELSE JUndefined

\* figma_post_comment: node_id || x !== undefined || y !== undefined
\*                       ? { node_id, x, y } : undefined
client_meta(node_id, x, y) ==
  IF Truthy(node_id) \/ x # JUndefined \/ y # JUndefined
  THEN JObj([node_id |-> node_id, x |-> x, y |-> y])
  ELSE JUndefined

\* The figma_post_comment tool called with these optional arguments.
figma_post_comment(comment_id, node_id, x, y) ==
  Tool("figma_post_comment",
       postComment(FileKey, "hello",
                   JObj([comment_id |-> comment_id, client_meta |-> client_meta(node_id, x, y)])),
       "formatResponse", "")
    @@ [args |-> [comment_id |-> comment_id, node_id |-> node_id, x |-> x, y |-> y]]

registerFileTools ==
  { Tool("figma_get_file", getFile(FileKey, JObj([version |-> JUndefined, depth |-> JUndefined,
                                                    branch_data |-> JUndefined])),
         "formatResponse", ""),
    Tool("figma_get_file_nodes",
         getFileNodes(FileKey, NodeIds, JObj([version |-> JUndefined, depth |-> JUndefined])),
         "formatResponse", ""),
    Tool("figma_get_file_meta", getFileMeta(FileKey), "formatResponse", ""),
    Tool("figma_get_images",
         getImages(FileKey, NodeIds,
                   JObj([format |-> JStr("png"), scale |-> JNum(1),
                         svg_include_id |-> JUndefined, svg_simplify_stroke |-> JUndefined,
                         contents_only |-> JUndefined, use_absolute_bounds |-> JUndefined])),
         "formatResponse", ""),
    Tool("figma_get_image_fills", getImageFills(FileKey), "formatResponse", "") }

registerCommentTools ==
  { Tool("figma_get_comments", getComments(FileKey, JObj([as_md |-> JUndefined])), "formatResponse", ""),
    figma_post_comment(JUndefined, JUndefined, JUndefined, JUndefined),
    Tool("figma_delete_comment", deleteComment(FileKey, CommentId), "formatSuccess",
         "Comment " \o CommentId \o " deleted successfully"),
    Tool("figma_get_comment_reactions", getCommentReactions(FileKey, CommentId, Cursorless),
         "formatResponse", ""),
    Tool("figma_post_comment_reaction", postCommentReaction(FileKey, CommentId, Emoji),
         "formatSuccess", "Reaction " \o Emoji \o " added to comment " \o CommentId),
    Tool("figma_delete_comment_reaction", deleteCommentReaction(FileKey, CommentId, Emoji),
         "formatSuccess", "Reaction " \o Emoji \o " removed from comment " \o CommentId) }

registerProjectTools ==
  { Tool("figma_get_team_projects", getTeamProjects(TeamId), "formatResponse", ""),
    Tool("figma_get_project_files", getProjectFiles(ProjectId, JObj([branch_data |-> JUndefined])),
         "formatResponse", "") }

registerVersionTools ==
  { Tool("figma_get_file_versions", getFileVersions(FileKey, Pageless),
         "formatResponse", "") }

registerComponentTools ==
  { Tool("figma_get_team_components", getTeamComponents(TeamId, Pageless),
         "formatResponse", ""),
    Tool("figma_get_file_components", getFileComponents(FileKey), "formatResponse", ""),
    Tool("figma_get_component", getComponent(ComponentKey), "formatResponse", ""),
    Tool("figma_get_team_component_sets", getTeamComponentSets(TeamId, Pageless),
         "formatResponse", ""),
    Tool("figma_get_file_component_sets", getFileComponentSets(FileKey), "formatResponse", ""),
    Tool("figma_get_component_set", getComponentSet(ComponentKey), "formatResponse", "") }

registerStyleTools ==
  { Tool("figma_get_team_styles", getTeamStyles(TeamId, Pageless), "formatResponse", ""),
    Tool("figma_get_file_styles", getFileStyles(FileKey), "formatResponse", ""),
    Tool("figma_get_style", getStyle(ComponentKey), "formatResponse", "") }

registerWebhookTools ==
  { Tool("figma_get_webhooks", getWebhooks(JObj([team_id |-> JUndefined])), "formatResponse", ""),
    Tool("figma_create_webhook", createWebhook(JObj(WebhookInput.o @@
                            [status |-> JUndefined, description |-> JUndefined])),
         "formatResponse", ""),
    Tool("figma_get_webhook", getWebhook(WebhookId), "formatResponse", ""),
    Tool("figma_update_webhook", updateWebhook(WebhookId, JObj([event_type |-> JUndefined, endpoint |-> JUndefined,
                                        passcode |-> JUndefined, status |-> JStr("PAUSED"),
                                        description |-> JUndefined])),
         "formatResponse", ""),
    Tool("figma_delete_webhook", deleteWebhook(WebhookId), "formatSuccess",
         "Webhook " \o WebhookId \o " deleted successfully"),
    Tool("figma_get_webhook_requests", getWebhookRequests(WebhookId), "formatResponse", "") }

registerVariableTools ==
  { Tool("figma_get_local_variables", getLocalVariables(FileKey), "formatResponse", ""),
    Tool("figma_get_published_variables", getPublishedVariables(FileKey), "formatResponse", ""),
    Tool("figma_modify_variables", postVariables(FileKey, JObj([variableCollections |-> JUndefined,
                                      variableModes |-> JUndefined,
                                      variables |-> JArr(<<>>),
                                      variableModeValues |-> JUndefined])),
         "formatResponse", "") }

registerDevResourceTools ==
  { Tool("figma_get_dev_resources", getDevResources(FileKey, JObj([node_ids |-> JUndefined])),
         "formatResponse", ""),
    Tool("figma_create_dev_resources", createDevResources(JArr(<<JStr("r1")>>)), "formatResponse", ""),
    Tool("figma_update_dev_resources", updateDevResources(JArr(<<JStr("r1")>>)), "formatResponse", ""),
    Tool("figma_delete_dev_resource", deleteDevResource(FileKey, DevResourceId), "formatSuccess",
         "Dev resource " \o DevResourceId \o " deleted successfully") }

registerAnalyticsTools ==
  { Tool("figma_get_activity_logs",
         getActivityLogs(JObj([event_type |-> JUndefined, limit |-> JUndefined,
                               order |-> JUndefined])),
         "formatResponse", ""),
    Tool("figma_get_payments", getPayments(JObj([user_ids |-> JUndefined])), "formatResponse", ""),
    Tool("figma_get_component_actions", getComponentActions(FileKey, Cursorless),
         "formatResponse", ""),
    Tool("figma_get_component_usages", getComponentUsages(FileKey, Cursorless),
         "formatResponse", ""),
    Tool("figma_get_style_actions", getStyleActions(FileKey, Cursorless),
         "formatResponse", ""),
    Tool("figma_get_style_usages", getStyleUsages(FileKey, Cursorless),
         "formatResponse", "") }

registerUserTools == { Tool("figma_get_me", getMe, "formatResponse", "") }

\* The tool createStatelessServer registers inline.
figma_test_connection == Tool("figma_test_connection", testConnectionCall, "testConnection", "")

\* An error leaving a handler uncaught, towards the MCP transport.
Escaped(error) == [escaped |-> error]

\* Mutant: the handler has no try/catch around the client call.
toolHandler_Uncaught(tool, result) ==
  IF ~result.ok THEN Escaped(result.error)
  ELSE IF tool.onSuccess = "formatSuccess" THEN formatSuccess(tool.message, JUndefined)
  ELSE formatResponse(result.value)

\* The handler of every tool but figma_test_connection, given the outcome
\* of the client method: try { ... formatResponse / formatSuccess } catch
\* { formatError }.
toolHandler(tool, result) ==
  IF ~result.ok THEN formatError(result.error)
  ELSE IF tool.onSuccess = "formatSuccess" THEN formatSuccess(tool.message, JUndefined)
  ELSE formatResponse(result.value)

\* Mutant: a report with connected false is returned as an error envelope.
testConnectionHandler_FlagsFailure(result) ==
  IF result.ok /\ result.value.o.connected = JBool(TRUE)
  THEN Envelope(JSONStringify(result.value))
  ELSE IF result.ok THEN ErrorEnvelope(JSONStringify(result.value))
  ELSE ErrorEnvelope(JStr("Connection failed: " \o String(result.error.message)))

\* The handler of figma_test_connection.
testConnectionHandler(result) ==
  IF result.ok THEN Envelope(JSONStringify(result.value))
  ELSE ErrorEnvelope(JStr("Connection failed: " \o String(result.error.message)))

\* The handler registered under the tool's name.
handle(tool, result) ==
  IF tool.onSuccess = "testConnection" THEN testConnectionHandler(result)
  ELSE toolHandler(tool, result)

\* Mutant: the inline registration of figma_test_connection is left out.
RegisteredTools_CategoriesOnly ==
  registerFileTools \cup registerCommentTools \cup registerProjectTools
  \cup registerVersionTools \cup registerComponentTools \cup registerStyleTools
  \cup registerWebhookTools \cup registerVariableTools
  \cup registerDevResourceTools \cup registerAnalyticsTools
  \cup registerUserTools

\* Every tool createStatelessServer registers.
RegisteredTools ==
  registerFileTools \cup registerCommentTools \cup registerProjectTools
  \cup registerVersionTools \cup registerComponentTools \cup registerStyleTools
  \cup registerWebhookTools \cup registerVariableTools
  \cup registerDevResourceTools \cup registerAnalyticsTools
  \cup registerUserTools \cup {figma_test_connection}

\* Mutant: the client is built once and kept for the requests that follow.
createStatelessServer_Cached(id, credentials) ==
  [client |-> IF \E r \in Requests : client[r] # None
              THEN client[CHOOSE r \in Requests : client[r] # None]
              ELSE createFigmaClient(id, credentials),
   tools |-> RegisteredTools]

\* createStatelessServer(credentials): the client it constructs and the
\* tools it registers against that client.
createStatelessServer(id, credentials) ==
  [client |-> createFigmaClient(id, credentials), tools |-> RegisteredTools]

\* Mutant: init() builds the server of the stateless mode, from credentials
\* without a token, and returns.
FigmaMcpAgent_init_Serving(id) ==
  LET server == createStatelessServer(id, [accessToken |-> JUndefined, baseUrl |-> JUndefined])
  IN  [result |-> Return(JUndefined), client |-> server.client, tools |-> server.tools]

\* FigmaMcpAgent.init(): what it returns or throws, the client it
\* constructs (none) and the tools it registers on the agent's server (none).
FigmaMcpAgent_init(id) ==
  [result |-> Throw(Error("Stateful mode (McpAgent) is not supported for multi-tenant deployments. "
                          \o "Use the stateless /mcp endpoint with X-Figma-Token header instead.")),
   client |-> None,
   tools |-> {}]

(* ------------------------------------------------------------------ *)
(* Worker responses (src/index.ts, fetch)                              *)
(* ------------------------------------------------------------------ *)

SERVER_NAME == "primrose-mcp-figma"

HttpResponse(status, body) == [status |-> status, body |-> body]

HealthResponse == HttpResponse(200, JObj([status |-> JStr("ok"), server |-> JStr(SERVER_NAME)]))

UnauthorizedResponse(error) ==
  HttpResponse(401, JObj([error |-> JStr("Unauthorized"),
                          message |-> error.message,
                          required_headers |-> JArr(<<JStr("X-Figma-Token")>>)]))

SseResponse ==
  HttpResponse(501, JStr("SSE endpoint requires Durable Objects. Enable in wrangler.jsonc."))

\* The tool names the discovery document lists.
DiscoveryTools ==
  { "figma_get_file", "figma_get_file_nodes", "figma_get_file_meta", "figma_get_images",
    "figma_get_image_fills",
    "figma_get_comments", "figma_post_comment", "figma_delete_comment",
    "figma_get_comment_reactions", "figma_post_comment_reaction",
    "figma_delete_comment_reaction",
    "figma_get_team_projects", "figma_get_project_files",
    "figma_get_file_versions",
    "figma_get_team_components", "figma_get_file_components", "figma_get_component",
    "figma_get_team_component_sets", "figma_get_file_component_sets",
    "figma_get_component_set",
    "figma_get_team_styles", "figma_get_file_styles", "figma_get_style",
    "figma_get_webhooks", "figma_create_webhook", "figma_get_webhook",
    "figma_update_webhook", "figma_delete_webhook", "figma_get_webhook_requests",
    "figma_get_local_variables", "figma_get_published_variables", "figma_modify_variables",
    "figma_get_dev_resources", "figma_create_dev_resources", "figma_update_dev_resources",
    "figma_delete_dev_resource",
    "figma_get_activity_logs", "figma_get_payments", "figma_get_component_actions",
    "figma_get_component_usages", "figma_get_style_actions", "figma_get_style_usages",
    "figma_get_me",
    "figma_test_connection" }

\* The tool names the README lists under "Available Tools".
ReadmeTools ==
  { "figma_get_file", "figma_get_file_nodes", "figma_get_images",
   "figma_get_image_fills", "figma_list_team_projects", "figma_list_project_files",
   "figma_get_comments", "figma_post_comment", "figma_reply_to_comment",
   "figma_delete_comment", "figma_get_comment_reactions", "figma_get_file_versions",
   "figma_get_file_version", "figma_get_components", "figma_get_component",
   "figma_get_team_components", "figma_get_component_sets", "figma_get_styles",
   "figma_get_style", "figma_get_team_styles", "figma_list_webhooks",
   "figma_create_webhook", "figma_get_webhook", "figma_update_webhook",
   "figma_delete_webhook", "figma_get_local_variables",
   "figma_get_published_variables", "figma_create_variables",
   "figma_update_variables", "figma_get_dev_resources", "figma_create_dev_resource",
   "figma_update_dev_resource", "figma_delete_dev_resource",
   "figma_get_file_analytics", "figma_get_component_analytics", "figma_get_me",
   "figma_get_user" }

DiscoveryResponse ==
  HttpResponse(200, JObj([name |-> JStr(SERVER_NAME), version |-> JStr("1.0.0"),
                          tools |-> DiscoveryTools]))

(* ------------------------------------------------------------------ *)
(* Initial state                                                       *)
(* ------------------------------------------------------------------ *)

Init ==
  /\ pc = [r \in Requests |-> "idle"]
  /\ inbound = [r \in Requests |-> None]
  /\ client = [r \in Requests |-> None]
  /\ registered = [r \in Requests |-> {}]
  /\ handedOff = [r \in Requests |-> FALSE]
  /\ invocation = [r \in Requests |-> None]
  /\ inflight = [r \in Requests |-> None]
  /\ upstreamCalls = [r \in Requests |-> 0]
  /\ upstream = [r \in Requests |-> None]
  /\ requested = [r \in Requests |-> None]
  /\ outcome = [r \in Requests |-> None]
  /\ envelope = [r \in Requests |-> None]
  /\ httpResponse = [r \in Requests |-> None]
  /\ agentInit = [r \in Requests |-> None]
  /\ nextClientId = 1

(* ------------------------------------------------------------------ *)
(* Actions                                                             *)
(* ------------------------------------------------------------------ *)

\* Mutant: the server and its client are built before the credentials are
\* validated.
Receive_ServerFirst(r, request) ==
  /\ pc[r] = "idle"
  /\ inbound' = [inbound EXCEPT ![r] = request]
  /\ IF request.pathname = "/health"
     THEN /\ httpResponse' = [httpResponse EXCEPT ![r] = HealthResponse]
          /\ pc' = [pc EXCEPT ![r] = "done"]
          /\ UNCHANGED <<client, registered, handedOff, nextClientId>>
     ELSE IF request.pathname = "/mcp" /\ request.method = "POST"
     THEN LET credentials == parseTenantCredentials(request)
              valid == validateCredentials(credentials)
              server == createStatelessServer(nextClientId, credentials)
          IN IF ~valid.ok
             THEN /\ client' = [client EXCEPT ![r] = server.client]
                  /\ registered' = [registered EXCEPT ![r] = {t.name : t \in server.tools}]
                  /\ nextClientId' = nextClientId + 1
                  /\ httpResponse' = [httpResponse EXCEPT ![r] = UnauthorizedResponse(valid.error)]
                  /\ pc' = [pc EXCEPT ![r] = "done"]
                  /\ UNCHANGED handedOff
             ELSE /\ client' = [client EXCEPT ![r] = server.client]
                  /\ registered' = [registered EXCEPT ![r] = {t.name : t \in server.tools}]
                  /\ nextClientId' = nextClientId + 1
                  /\ handedOff' = [handedOff EXCEPT ![r] = TRUE]
                  /\ pc' = [pc EXCEPT ![r] = "mcp"]
                  /\ UNCHANGED httpResponse
     ELSE IF request.pathname = "/sse"
     THEN /\ httpResponse' = [httpResponse EXCEPT ![r] = SseResponse]
          /\ pc' = [pc EXCEPT ![r] = "done"]
          /\ UNCHANGED <<client, registered, handedOff, nextClientId>>
     ELSE /\ httpResponse' = [httpResponse EXCEPT ![r] = DiscoveryResponse]
          /\ pc' = [pc EXCEPT ![r] = "done"]
          /\ UNCHANGED <<client, registered, handedOff, nextClientId>>
  /\ UNCHANGED <<agentInit, invocation, inflight, upstreamCalls, upstream, requested, outcome, envelope>>

\* Mutant: the /mcp route is taken whatever the HTTP method.
Receive_AnyMethodMcp(r, request) ==
  /\ pc[r] = "idle"
  /\ inbound' = [inbound EXCEPT ![r] = request]
  /\ IF request.pathname = "/health"
     THEN /\ httpResponse' = [httpResponse EXCEPT ![r] = HealthResponse]
          /\ pc' = [pc EXCEPT ![r] = "done"]
          /\ UNCHANGED <<client, registered, handedOff, nextClientId>>
     ELSE IF request.pathname = "/mcp"
     THEN LET credentials == parseTenantCredentials(request)
              valid == validateCredentials(credentials)
              server == createStatelessServer(nextClientId, credentials)
          IN IF ~valid.ok
             THEN /\ httpResponse' = [httpResponse EXCEPT ![r] = UnauthorizedResponse(valid.error)]
                  /\ pc' = [pc EXCEPT ![r] = "done"]
                  /\ UNCHANGED <<client, registered, handedOff, nextClientId>>
             ELSE /\ client' = [client EXCEPT ![r] = server.client]
                  /\ registered' = [registered EXCEPT ![r] = {t.name : t \in server.tools}]
                  /\ nextClientId' = nextClientId + 1
                  /\ handedOff' = [handedOff EXCEPT ![r] = TRUE]
                  /\ pc' = [pc EXCEPT ![r] = "mcp"]
                  /\ UNCHANGED httpResponse
     ELSE IF request.pathname = "/sse"
     THEN /\ httpResponse' = [httpResponse EXCEPT ![r] = SseResponse]
          /\ pc' = [pc EXCEPT ![r] = "done"]
          /\ UNCHANGED <<client, registered, handedOff, nextClientId>>
     ELSE /\ httpResponse' = [httpResponse EXCEPT ![r] = DiscoveryResponse]
          /\ pc' = [pc EXCEPT ![r] = "done"]
          /\ UNCHANGED <<client, registered, handedOff, nextClientId>>
  /\ UNCHANGED <<agentInit, invocation, inflight, upstreamCalls, upstream, requested, outcome, envelope>>

\* Mutant: the credentials are validated for /mcp whatever the method.
Receive_ChecksEveryMcp(r, request) ==
  /\ pc[r] = "idle"
  /\ inbound' = [inbound EXCEPT ![r] = request]
  /\ IF request.pathname = "/health"
     THEN /\ httpResponse' = [httpResponse EXCEPT ![r] = HealthResponse]
          /\ pc' = [pc EXCEPT ![r] = "done"]
          /\ UNCHANGED <<client, registered, handedOff, nextClientId>>
     ELSE IF request.pathname = "/mcp"
     THEN LET credentials == parseTenantCredentials(request)
              valid == validateCredentials(credentials)
              server == createStatelessServer(nextClientId, credentials)
          IN IF ~valid.ok
             THEN /\ httpResponse' = [httpResponse EXCEPT ![r] = UnauthorizedResponse(valid.error)]
                  /\ pc' = [pc EXCEPT ![r] = "done"]
                  /\ UNCHANGED <<client, registered, handedOff, nextClientId>>
             ELSE IF request.method # "POST"
             THEN /\ httpResponse' = [httpResponse EXCEPT ![r] = DiscoveryResponse]
                  /\ pc' = [pc EXCEPT ![r] = "done"]
                  /\ UNCHANGED <<client, registered, handedOff, nextClientId>>
             ELSE /\ client' = [client EXCEPT ![r] = server.client]
                  /\ registered' = [registered EXCEPT ![r] = {t.name : t \in server.tools}]
                  /\ nextClientId' = nextClientId + 1
                  /\ handedOff' = [handedOff EXCEPT ![r] = TRUE]
                  /\ pc' = [pc EXCEPT ![r] = "mcp"]
                  /\ UNCHANGED httpResponse
     ELSE IF request.pathname = "/sse"
     THEN /\ httpResponse' = [httpResponse EXCEPT ![r] = SseResponse]
          /\ pc' = [pc EXCEPT ![r] = "done"]
          /\ UNCHANGED <<client, registered, handedOff, nextClientId>>
     ELSE /\ httpResponse' = [httpResponse EXCEPT ![r] = DiscoveryResponse]
          /\ pc' = [pc EXCEPT ![r] = "done"]
          /\ UNCHANGED <<client, registered, handedOff, nextClientId>>
  /\ UNCHANGED <<agentInit, invocation, inflight, upstreamCalls, upstream, requested, outcome, envelope>>

\* The worker's fetch handler, from the arrival of the request to the
\* response it builds or to the hand-off to the MCP transport handler.
Receive(r, request) ==
  /\ pc[r] = "idle"
  /\ inbound' = [inbound EXCEPT ![r] = request]
  /\ IF request.pathname = "/health"
     THEN /\ httpResponse' = [httpResponse EXCEPT ![r] = HealthResponse]
          /\ pc' = [pc EXCEPT ![r] = "done"]
          /\ UNCHANGED <<client, registered, handedOff, nextClientId>>
     ELSE IF request.pathname = "/mcp" /\ request.method = "POST"
     THEN LET credentials == parseTenantCredentials(request)
              valid == validateCredentials(credentials)
              server == createStatelessServer(nextClientId, credentials)
          IN IF ~valid.ok
             THEN /\ httpResponse' = [httpResponse EXCEPT ![r] = UnauthorizedResponse(valid.error)]
                  /\ pc' = [pc EXCEPT ![r] = "done"]
                  /\ UNCHANGED <<client, registered, handedOff, nextClientId>>
             ELSE /\ client' = [client EXCEPT ![r] = server.client]
                  /\ registered' = [registered EXCEPT ![r] = {t.name : t \in server.tools}]
                  /\ nextClientId' = nextClientId + 1
                  /\ handedOff' = [handedOff EXCEPT ![r] = TRUE]
                  /\ pc' = [pc EXCEPT ![r] = "mcp"]
                  /\ UNCHANGED httpResponse
     ELSE IF request.pathname = "/sse"
     THEN /\ httpResponse' = [httpResponse EXCEPT ![r] = SseResponse]
          /\ pc' = [pc EXCEPT ![r] = "done"]
          /\ UNCHANGED <<client, registered, handedOff, nextClientId>>
     ELSE /\ httpResponse' = [httpResponse EXCEPT ![r] = DiscoveryResponse]
          /\ pc' = [pc EXCEPT ![r] = "done"]
          /\ UNCHANGED <<client, registered, handedOff, nextClientId>>
  /\ UNCHANGED <<agentInit, invocation, inflight, upstreamCalls, upstream, requested, outcome, envelope>>

\* The agents runtime starts a FigmaMcpAgent, the exported Durable Object
\* class of the stateful mode, and awaits its init().
AgentInit(r) ==
  LET agent == FigmaMcpAgent_init(nextClientId)
  IN /\ pc[r] = "idle"
     /\ agentInit' = [agentInit EXCEPT ![r] = agent.result]
     /\ client' = [client EXCEPT ![r] = agent.client]
     /\ registered' = [registered EXCEPT ![r] = {t.name : t \in agent.tools}]
     /\ nextClientId' = IF agent.client = None THEN nextClientId ELSE nextClientId + 1
     /\ pc' = [pc EXCEPT ![r] = "done"]
     /\ UNCHANGED <<inbound, handedOff, invocation, inflight, upstreamCalls, upstream,
                    requested, outcome, envelope, httpResponse>>

\* A caller of the exported factory builds a client of its own.
Construct(r, credentials) ==
  /\ pc[r] = "idle"
  /\ client' = [client EXCEPT ![r] = createFigmaClient(nextClientId, credentials)]
  /\ nextClientId' = nextClientId + 1
  /\ pc' = [pc EXCEPT ![r] = "client"]
  /\ UNCHANGED <<inbound, registered, handedOff, agentInit, invocation, inflight, upstreamCalls,
                 upstream, requested, outcome, envelope, httpResponse>>

\* A client method runs up to its await of fetch: request() builds the URL
\* and the headers and calls fetch, or throws before calling it.
Start(r, tool, call) ==
  LET fetching == requestFetch(client[r], call.endpoint, call.options)
      result == methodOutcome(call, fetching)
  IN /\ invocation' = [invocation EXCEPT ![r] = [tool |-> tool, call |-> call]]
     /\ IF fetching.ok
        THEN /\ inflight' = [inflight EXCEPT ![r] = fetching.value]
             /\ upstreamCalls' = [upstreamCalls EXCEPT ![r] = @ + 1]
             /\ pc' = [pc EXCEPT ![r] = "fetching"]
             /\ UNCHANGED <<requested, outcome, envelope>>
        ELSE /\ requested' = [requested EXCEPT ![r] = fetching]
             /\ outcome' = [outcome EXCEPT ![r] = result]
             /\ envelope' = [envelope EXCEPT ![r] = IF tool = None THEN None ELSE handle(tool, result)]
             /\ pc' = [pc EXCEPT ![r] = "done"]
             /\ UNCHANGED <<inflight, upstreamCalls>>
     /\ UNCHANGED <<inbound, client, registered, handedOff, agentInit, upstream, httpResponse, nextClientId>>

\* The MCP transport dispatches a tools/call to the registered handler.
CallTool(r, tool) ==
  /\ pc[r] = "mcp"
  /\ tool.name \in registered[r]
  /\ Start(r, tool, tool.call)

\* The owner of a directly built client calls one of its methods.
Invoke(r, call) ==
  /\ pc[r] = "client"
  /\ Start(r, None, call)

\* A handler registered against a directly built client, through one of the
\* exported register...Tools(server, client) functions, is called.
CallRegistered(r, tool) ==
  /\ pc[r] = "client"
  /\ tool # figma_test_connection
  /\ Start(r, tool, tool.call)

\* Mutant: a 401 makes the client forget the token it was built with.
Settle_DroppingToken(r, answer, settled) ==
  LET call == invocation[r].call
      tool == invocation[r].tool
      result == methodOutcome(call, settled)
  IN /\ pc[r] = "fetching"
     /\ upstream' = [upstream EXCEPT ![r] = answer]
     /\ requested' = [requested EXCEPT ![r] = settled]
     /\ inflight' = [inflight EXCEPT ![r] = None]
     /\ outcome' = [outcome EXCEPT ![r] = result]
     /\ envelope' = [envelope EXCEPT ![r] = IF tool = None THEN None ELSE handle(tool, result)]
     /\ pc' = [pc EXCEPT ![r] = "done"]
     /\ client' = [client EXCEPT ![r] =
                     IF "status" \in DOMAIN answer /\ answer.status = 401
                     THEN [@ EXCEPT !.credentials.accessToken = JUndefined]
                     ELSE @]
     /\ UNCHANGED <<inbound, registered, handedOff, agentInit, invocation, upstreamCalls,
                    httpResponse, nextClientId>>

\* The awaited fetch settles with `answer`; request() then returns or throws
\* `settled`, the method returns or throws and the handler wraps the result.
Settle(r, answer, settled) ==
  LET call == invocation[r].call
      tool == invocation[r].tool
      result == methodOutcome(call, settled)
  IN /\ pc[r] = "fetching"
     /\ upstream' = [upstream EXCEPT ![r] = answer]
     /\ requested' = [requested EXCEPT ![r] = settled]
     /\ inflight' = [inflight EXCEPT ![r] = None]
     /\ outcome' = [outcome EXCEPT ![r] = result]
     /\ envelope' = [envelope EXCEPT ![r] = IF tool = None THEN None ELSE handle(tool, result)]
     /\ pc' = [pc EXCEPT ![r] = "done"]
     /\ UNCHANGED <<inbound, client, registered, handedOff, agentInit, invocation, upstreamCalls,
                    httpResponse, nextClientId>>

\* Mutant: a 401 is answered by issuing the call again, without bound; the
\* mark on the call in flight tells one attempt from the next.
FetchSettles_Reissuing(r, response) ==
  /\ pc[r] = "fetching"
  /\ IF response.status = 401
     THEN /\ inflight' = [inflight EXCEPT ![r] =
                           IF "reissued" \in DOMAIN @
                           THEN [@ EXCEPT !.reissued = ~@]
                           ELSE @ @@ [reissued |-> TRUE]]
          /\ UNCHANGED <<pc, inbound, client, registered, handedOff, agentInit, invocation,
                         upstreamCalls, upstream, requested, outcome, envelope, httpResponse,
                         nextClientId>>
     ELSE Settle(r, response, requestSettle(invocation[r].call.endpoint, response))

\* Mutant: a throttled or failed call (429, 5xx) is issued again.
FetchSettles_Retrying(r, response) ==
  /\ pc[r] = "fetching"
  /\ IF response.status = 429 \/ response.status >= 500
     THEN /\ upstreamCalls' = [upstreamCalls EXCEPT ![r] = @ + 1]
          /\ UNCHANGED <<pc, inbound, client, registered, handedOff, agentInit, invocation, inflight,
                         upstream, requested, outcome, envelope, httpResponse, nextClientId>>
     ELSE Settle(r, response, requestSettle(invocation[r].call.endpoint, response))

\* The upstream answers the fetch with a response.
FetchSettles(r, response) ==
  /\ pc[r] = "fetching"
  /\ Settle(r, response, requestSettle(invocation[r].call.endpoint, response))

NetworkFailure == [failure |-> "network"]

\* The fetch rejects: no response arrived.
FetchFails(r) ==
  /\ pc[r] = "fetching"
  /\ Settle(r, NetworkFailure, FetchRejected)

\* The owner of a directly built client is done with the result of a call
\* and may call the client again: the client has kept nothing of the call.
Again(r) ==
  /\ pc[r] = "done"
  /\ client[r] # None
  /\ inbound[r] = None
  /\ pc' = [pc EXCEPT ![r] = "client"]
  /\ invocation' = [invocation EXCEPT ![r] = None]
  /\ upstreamCalls' = [upstreamCalls EXCEPT ![r] = 0]
  /\ upstream' = [upstream EXCEPT ![r] = None]
  /\ requested' = [requested EXCEPT ![r] = None]
  /\ outcome' = [outcome EXCEPT ![r] = None]
  /\ envelope' = [envelope EXCEPT ![r] = None]
  /\ UNCHANGED <<inbound, client, registered, handedOff, agentInit, inflight, httpResponse, nextClientId>>

(* ------------------------------------------------------------------ *)
(* Inputs                                                              *)
(* ------------------------------------------------------------------ *)

\* The registered tools with their optional arguments left out, and
\* figma_post_comment with its position arguments given, empty, zero or
\* left out.
AllTools ==
  RegisteredTools
  \cup {figma_post_comment(JUndefined, n, x, y) :
          n \in {JUndefined, JStr(""), JStr("1:2")},
          x \in {JUndefined, JNum(0), JNum(5)},
          y \in {JUndefined, JNum(0)}}
  \cup {figma_post_comment(JStr(CommentId), JUndefined, JUndefined, JUndefined)}

\* Depths a caller asks for; 0 is a depth that is supplied and falsy.
Depths == {0, 2}

\* Calls of the methods with their options supplied, left out, or supplied
\* with falsy fields.
OptionCalls ==
  {getFile(FileKey, JUndefined),
   getFile(FileKey, JObj(<<>>)),
   getFile(FileKey, JObj([version |-> JStr("v7")])),
   getFile(FileKey, JObj([ids |-> NodeIds])),
   getFile(FileKey, JObj([version |-> JStr("v7"), depth |-> JNum(2),
                          geometry |-> JStr("paths"), plugin_data |-> JStr("shared"),
                          branch_data |-> JBool(TRUE)])),
   getFile(FileKey, JObj([version |-> JStr(""), branch_data |-> JBool(FALSE)])),
   getFileNodes(FileKey, NodeIds, JUndefined),
   getFileNodes(FileKey, JArr(<<>>), JObj([depth |-> JNum(0)])),
   getImages(FileKey, JArr(<<JStr("1:2")>>), JUndefined),
   getImages(FileKey, JArr(<<JStr("1:2")>>), JObj([scale |-> JNum(0)])),
   getImages(FileKey, JArr(<<JStr("1:2")>>),
             JObj([scale |-> JNum(0), format |-> JStr(""), svg_include_id |-> JBool(FALSE),
                   contents_only |-> JBool(FALSE)])),
   getFileVersions(FileKey, JUndefined),
   getFileVersions(FileKey, JObj(<<>>)),
   getFileVersions(FileKey, JObj([page_size |-> JNum(50)])),
   getFileVersions(FileKey, JObj([cursor |-> JStr("cur1")])),
   getFileVersions(FileKey, JObj([page_size |-> JNum(50), cursor |-> JStr("cur1")])),
   getFileVersions(FileKey, JObj([page_size |-> JNum(0), cursor |-> JStr("")])),
   getComments(FileKey, JObj(<<>>)),
   getComments(FileKey, JObj([as_md |-> JBool(TRUE)])),
   getComments(FileKey, JObj([as_md |-> JBool(FALSE)])),
   getWebhooks(JObj([team_id |-> JStr(TeamId)])),
   getDevResources(FileKey, JObj([node_ids |-> NodeIds])),
   getActivityLogs(JUndefined),
   getActivityLogs(JObj(<<>>)),
   getActivityLogs(JObj([event_type |-> JStr("FILE_UPDATE"), limit |-> JNum(50),
                         order |-> JStr("asc")])),
   getActivityLogs(JObj([limit |-> JNum(0)])),
   getPayments(JObj([user_ids |-> JArr(<<JStr("u1"), JStr("u2")>>)])),
   createWebhook(WebhookInput)}
  \cup {getFile(k, JObj([depth |-> JNum(d)])) : k \in {FileKey, ComponentKey}, d \in Depths}

AllCalls == {t.call : t \in AllTools} \cup OptionCalls

ProxyUrl == "https://proxy.example"

HeaderChars == {"3", "0", "s", "-"}

\* Every header text of at most MaxHeaderLen characters.
HeaderTexts == UNION {[1..n -> HeaderChars] : n \in 0..MaxHeaderLen}

RetryAfterHeaders == {HeaderAbsent} \cup {Header(cs) : cs \in HeaderTexts}

Responses ==
  {Response(s, HeaderAbsent, b) : s \in {200, 201, 400, 500}, b \in BodyTexts}
  \cup {Response(s, HeaderAbsent, b) : s \in {204, 401, 403, 404}, b \in {"", "{\"message\":\"m1\"}"}}
  \cup {Response(429, h, "") : h \in RetryAfterHeaders}

TokenHeaders == {JNull, JStr(""), JStr("tokA"), JStr("tokB")}

BaseUrlHeaders == {JNull, JStr(""), JStr(ProxyUrl)}

InboundRequests ==
  {Request(m, p, t, b) : m \in {"GET", "POST", "DELETE"}, p \in {"/mcp", "/health", "/sse", "/"},
                         t \in TokenHeaders, b \in BaseUrlHeaders}

\* Credentials a direct caller of createFigmaClient may pass.
CredentialsSet ==
  {[accessToken |-> t, baseUrl |-> b] : t \in {JUndefined, JStr("tokA")},
                                        b \in {JUndefined, JStr(""), JStr(ProxyUrl)}}

(* ------------------------------------------------------------------ *)
(* Specifications                                                      *)
(* ------------------------------------------------------------------ *)

\* The worker serving MaxRequests requests concurrently: few tools and
\* answers, every interleaving.
WorkerRequests ==
  {Request("POST", "/mcp", JNull, JNull),
   Request("POST", "/mcp", JStr("tokA"), JNull),
   Request("POST", "/mcp", JStr("tokB"), JStr(ProxyUrl)),
   Request("POST", "/mcp", JStr(""), JNull),
   Request("POST", "/mcp", JStr("tokA"), JStr("")),
   Request("GET", "/health", JNull, JNull),
   Request("GET", "/sse", JNull, JNull),
   Request("GET", "/", JNull, JNull)}

WorkerTools == {t \in AllTools : t.name \in {"figma_get_me", "figma_delete_comment"}}

WorkerResponses ==
  {Response(200, HeaderAbsent, "{\"id\":\"u1\",\"handle\":\"ann\"}"),
   Response(204, HeaderAbsent, ""),
   Response(401, HeaderAbsent, "")}

Next ==
  \E r \in Requests :
    \/ \E request \in WorkerRequests : Receive(r, request)
    \/ \E tool \in WorkerTools : CallTool(r, tool)
    \/ \E response \in WorkerResponses : FetchSettles(r, response)
    \/ FetchFails(r)
    \/ AgentInit(r)

Spec == Init /\ [][Next]_vars

\* The worker as the liveness check takes it: requests that are handed to
\* the MCP transport or answered at once, the tools and answers of Spec.
NextLive ==
  \E r \in Requests :
    \/ \E request \in {Request("POST", "/mcp", JStr("tokA"), JNull),
                        Request("GET", "/health", JNull, JNull)} : Receive(r, request)
    \/ \E tool \in WorkerTools : CallTool(r, tool)
    \/ \E response \in WorkerResponses : FetchSettles(r, response)
    \/ FetchFails(r)

\* The worker under the provision that an awaited fetch eventually settles:
\* a response arrives or the fetch fails.
SpecLive ==
  /\ Init
  /\ [][NextLive]_vars
  /\ \A r \in Requests :
       WF_vars((\E response \in WorkerResponses : FetchSettles(r, response)) \/ FetchFails(r))

\* One request or one direct client at a time: every tool, every client
\* method, every answer of the upstream.
NextClient ==
  \/ \E request \in InboundRequests : Receive(1, request)
  \/ \E tool \in AllTools : CallTool(1, tool)
  \/ \E credentials \in CredentialsSet : Construct(1, credentials)
  \/ \E call \in AllCalls : Invoke(1, call)
  \/ \E tool \in AllTools : CallRegistered(1, tool)
  \/ \E response \in Responses : FetchSettles(1, response)
  \/ FetchFails(1)
  \/ Again(1)
  \/ AgentInit(1)

SpecClient == Init /\ [][NextClient]_vars

(* ------------------------------------------------------------------ *)
(* Properties                                                          *)
(* ------------------------------------------------------------------ *)

\* The request r is a POST /mcp that carries no X-Figma-Token header.
McpWithoutToken(r) ==
  /\ inbound[r] # None
  /\ inbound[r].method = "POST"
  /\ inbound[r].pathname = "/mcp"
  /\ inbound[r].headers.XFigmaToken = JNull

\* C1: every POST /mcp request without an X-Figma-Token header is answered
\* 401 with a JSON body listing X-Figma-Token in required_headers, and no
\* upstream call is ever issued for it (no client is even built).
C1_MissingTokenRejected ==
  \A r \in Requests :
    McpWithoutToken(r) =>
      /\ httpResponse[r] # None
      /\ httpResponse[r].status = 401
      /\ \E i \in DOMAIN httpResponse[r].body.o.required_headers.a :
           httpResponse[r].body.o.required_headers.a[i] = JStr("X-Figma-Token")
      /\ upstreamCalls[r] = 0
      /\ inflight[r] = None
      /\ client[r] = None
      /\ ~handedOff[r]

\* A tokenless POST /mcp was rejected while another request had an upstream
\* call under way.
C1_Witness ==
  \E r, q \in Requests :
    /\ McpWithoutToken(r)
    /\ httpResponse[r] # None /\ httpResponse[r].status = 401
    /\ q # r /\ upstreamCalls[q] = 1

\* The request r holds a client whose credentials lack an access token.
Tokenless(r) == client[r] # None /\ ~Truthy(client[r].credentials.accessToken)

\* C2 (as stated): no upstream call is ever issued by a client without an
\* access token, and every client method called on it fails with an
\* AuthenticationError.
C2_Original ==
  \A r \in Requests :
    Tokenless(r) =>
      /\ upstreamCalls[r] = 0
      /\ invocation[r] # None =>
           /\ ~outcome[r].ok
           /\ outcome[r].error.kind = "AuthenticationError"

\* C2 (amended): no upstream call is ever issued by a client without an
\* access token: in every method request() throws an AuthenticationError
\* before fetch is called; every method but testConnection fails with that
\* error, and testConnection returns {connected: false} with its message.
C2_NoTokenNoUpstream ==
  \A r \in Requests :
    Tokenless(r) =>
      /\ upstreamCalls[r] = 0
      /\ inflight[r] = None
      /\ upstream[r] = None
      /\ invocation[r] # None =>
           /\ pc[r] = "done"
           /\ ~requested[r].ok
           /\ requested[r].error.kind = "AuthenticationError"
           /\ IF invocation[r].call.method = "testConnection"
              THEN /\ outcome[r].ok
                   /\ outcome[r].value.o.connected = JBool(FALSE)
                   /\ outcome[r].value.o.message = requested[r].error.message
              ELSE outcome[r] = requested[r]

\* A method was called on a client without an access token.
C2_Witness ==
  \E r \in Requests :
    /\ Tokenless(r)
    /\ invocation[r] # None
    /\ invocation[r].call.method = "createWebhook"
    /\ pc[r] = "done"

\* The base URL the inbound request r asks for.
RequestedBaseUrl(r) ==
  IF Truthy(inbound[r].headers.XFigmaBaseURL)
  THEN inbound[r].headers.XFigmaBaseURL.s
  ELSE "https://api.figma.com"

\* C3: tenant isolation.  Every upstream call in flight carries the token
\* and the base URL of the inbound request it serves; every request handed to
\* the MCP transport has a client holding its own credentials; no two
\* requests hold the same client instance.
C3_TenantIsolation ==
  /\ \A r \in Requests :
       inflight[r] # None =>
         /\ inflight[r].headers.XFigmaToken = inbound[r].headers.XFigmaToken.s
         /\ inflight[r].url = RequestedBaseUrl(r) \o invocation[r].call.endpoint
  /\ \A r \in Requests :
       handedOff[r] =>
         /\ client[r] # None
         /\ client[r].credentials.accessToken = inbound[r].headers.XFigmaToken
         /\ client[r].baseUrl = RequestedBaseUrl(r)
  /\ \A r, q \in Requests :
       (r # q /\ client[r] # None /\ client[q] # None) => client[r].id # client[q].id

\* Two requests with different tokens and base URLs each await an upstream
\* call.
C3_Witness ==
  \E r, q \in Requests :
    /\ inflight[r] # None /\ inflight[q] # None
    /\ inflight[r].headers.XFigmaToken = "tokA"
    /\ inflight[q].headers.XFigmaToken = "tokB"
    /\ inflight[r].url = "https://api.figma.com/v1/me"
    /\ inflight[q].url = "https://proxy.example/v1/me"

\* The upstream answered the call of request r with a response.
Answered(r) == pc[r] = "done" /\ upstream[r] # None /\ upstream[r] # NetworkFailure

\* The outcome o is the one the decision table gives for the response.
Classified(response, endpoint, o) ==
  CASE response.status = 429 -> ~o.ok /\ o.error.kind = "RateLimitError"
    [] response.status = 401 -> ~o.ok /\ o.error.kind = "AuthenticationError"
    [] response.status = 403 -> ~o.ok /\ o.error.kind = "ForbiddenError"
    [] response.status = 404 ->
         /\ ~o.ok
         /\ o.error.kind = "NotFoundError"
         /\ o.error.resource = "Resource"
         /\ o.error.path = endpoint
    [] response.status \notin 200..299 /\ response.status \notin {429, 401, 403, 404} ->
         /\ ~o.ok
         /\ o.error.kind = "FigmaApiError"
         /\ o.error.status = response.status
    [] OTHER -> TRUE

\* C4 (as stated): the outcome class of a client call depends only on the
\* upstream status, whatever the operation: 429, 401, 403, 404 and the other
\* non-2xx statuses give their error kind, and every 2xx status a success.
\* testConnection, which reports instead of raising, is left aside.
C4_Original ==
  \A r \in Requests :
    (Answered(r) /\ invocation[r].call.method # "testConnection") =>
      /\ Classified(upstream[r], invocation[r].call.endpoint, outcome[r])
      /\ upstream[r].status \in 200..299 => outcome[r].ok

\* C4 (amended): request() classifies by the status alone, whatever the
\* operation; every method but testConnection hands that outcome on; a 204 is
\* a success, and another 2xx is a success exactly when its body is valid
\* JSON, else an unclassified parse error.
C4_UniformClassification ==
  \A r \in Requests :
    Answered(r) =>
      /\ Classified(upstream[r], invocation[r].call.endpoint, requested[r])
      /\ upstream[r].status = 204 => requested[r].ok
      /\ (upstream[r].status \in 200..299 /\ upstream[r].status # 204) =>
           /\ requested[r].ok <=> upstream[r].body \in JsonBodies
           /\ ~requested[r].ok => requested[r].error.kind \notin ClientErrorKinds
      /\ invocation[r].call.method # "testConnection" =>
           /\ outcome[r].ok = requested[r].ok
           /\ ~outcome[r].ok => outcome[r].error = requested[r].error

\* Two different operations met a 403 and a 404.
C4_Witness ==
  \E r \in Requests :
    /\ Answered(r)
    /\ upstream[r].status = 403
    /\ invocation[r].call.method = "deleteWebhook"
    /\ ~outcome[r].ok

\* Every character of the header text is a decimal digit.
IsNumeric(cs) == cs # <<>> /\ \A i \in DOMAIN cs : cs[i] \in Digits

\* C5: on a 429 the rate-limit error carries the integer of the Retry-After
\* header when the header is present and numeric, and 60 when it is absent
\* or unparseable.
C5_RetryAfter ==
  \A r \in Requests :
    (Answered(r) /\ upstream[r].status = 429) =>
      LET h == upstream[r].retryAfter
          carried == requested[r].error.retryAfter
      IN /\ (h.present /\ IsNumeric(h.value)) => carried = JNum(DigitsValue(h.value, 0))
         /\ (~h.present \/ parseInt(h.value) = NaN) => carried = JNum(60)

\* The status is one the table has no row of its own for.
GenericError(r) ==
  /\ Answered(r)
  /\ upstream[r].status \notin 200..299
  /\ upstream[r].status \notin {429, 401, 403, 404}

\* The first of message, err, error the object holds.
FirstPresent(v) ==
  IF "message" \in DOMAIN v.o THEN v.o.message
  ELSE IF "err" \in DOMAIN v.o THEN v.o.err
  ELSE v.o.error

\* The first truthy of message, err, error, or fallback.
FirstTruthy(v, fallback) ==
  IF Truthy(Get(v, "message")) THEN Get(v, "message")
  ELSE IF Truthy(Get(v, "err")) THEN Get(v, "err")
  ELSE IF Truthy(Get(v, "error")) THEN Get(v, "error")
  ELSE fallback

\* C6 (as stated): for a generic API error, a JSON body holding message, err
\* or error gives the error the value of the first of them it holds; a body
\* that is not JSON gives "API error: {status}".
C6_Original ==
  \A r \in Requests :
    GenericError(r) =>
      LET body == upstream[r].body
          m == requested[r].error.message
      IN IF body \in JsonBodies
         THEN LET v == JSONParse(body).value
              IN (v.t = "obj" /\ DOMAIN v.o \cap {"message", "err", "error"} # {}) =>
                   m = FirstPresent(v)
         ELSE m = JStr("API error: " \o ToString(upstream[r].status))

\* C6 (amended): the message is the first truthy (non-empty) value among
\* message, err and error, in that order; when none is truthy, or the body is
\* not JSON, it is "API error: {status}".
C6_ErrorMessage ==
  \A r \in Requests :
    GenericError(r) =>
      LET body == upstream[r].body
          fallback == JStr("API error: " \o ToString(upstream[r].status))
          m == requested[r].error.message
      IN IF body \in JsonBodies
         THEN m = FirstTruthy(JSONParse(body).value, fallback)
         ELSE m = fallback

\* A 500 whose body holds err and error but no message.
C6_Witness ==
  \E r \in Requests :
    /\ GenericError(r)
    /\ upstream[r].status = 500
    /\ upstream[r].body = "{\"err\":\"e1\",\"error\":\"x1\"}"
    /\ requested[r].error.message = JStr("e1")

\* C7 (as stated): every client operation answered 204 yields undefined.
C7_Original ==
  \A r \in Requests :
    (Answered(r) /\ upstream[r].status = 204) => outcome[r] = Return(JUndefined)

\* C7 (amended): on a 204 request() returns undefined without parsing the
\* body; every method but testConnection returns undefined, and
\* testConnection returns {connected: true} with an undefined user.
C7_NoContent ==
  \A r \in Requests :
    (Answered(r) /\ upstream[r].status = 204) =>
      /\ requested[r] = Return(JUndefined)
      /\ IF invocation[r].call.method = "testConnection"
         THEN /\ outcome[r].ok
              /\ outcome[r].value.o.connected = JBool(TRUE)
              /\ outcome[r].value.o.user = JUndefined
         ELSE outcome[r] = Return(JUndefined)

\* A value-returning method was answered 204 with a body that is not JSON.
C7_Witness ==
  \E r \in Requests :
    /\ Answered(r)
    /\ upstream[r].status = 204
    /\ upstream[r].body \notin JsonBodies
    /\ invocation[r].call.method = "getFile"

\* The call of r was answered 2xx, not 204, with a valid JSON body.
AnsweredJson(r) ==
  /\ Answered(r)
  /\ upstream[r].status \in 200..299
  /\ upstream[r].status # 204
  /\ upstream[r].body \in JsonBodies

\* C8 (as stated): given a 2xx response, every client operation returns the
\* parsed JSON body unchanged.  testConnection, which wraps the body in its
\* report, is left aside.
C8_Original ==
  \A r \in Requests :
    (AnsweredJson(r) /\ invocation[r].call.method # "testConnection") =>
      outcome[r] = Return(JSONParse(upstream[r].body).value)

\* C8 (amended): given a 2xx response other than 204 with a valid JSON body,
\* every value-returning method returns the parsed body unchanged; the void
\* methods return undefined, and testConnection returns the body as the
\* user of its report.
C8_RoundTrip ==
  \A r \in Requests :
    AnsweredJson(r) =>
      LET parsed == JSONParse(upstream[r].body).value
          call == invocation[r].call
      IN /\ call.returns = "value" => outcome[r] = Return(parsed)
         /\ call.returns = "void" => outcome[r] = Return(JUndefined)
         /\ call.returns = "connection" =>
              /\ outcome[r].ok
              /\ outcome[r].value.o.user = parsed

\* getMe returned the user record the upstream sent with a 200.
C8_Witness ==
  \E r \in Requests :
    /\ AnsweredJson(r)
    /\ invocation[r].call.method = "getMe"
    /\ outcome[r] = Return(JObj([id |-> JStr("u1"), handle |-> JStr("ann")]))

\* testConnection() was called on r and has finished.
ConnectionTested(r) ==
  /\ pc[r] = "done"
  /\ invocation[r] # None
  /\ invocation[r].call.method = "testConnection"

\* C9: testConnection() never raises: whatever became of the underlying
\* getMe() (a classified error, a missing token, a network failure, a parse
\* error), it returns {connected: false, message} with the failure's
\* message; on success it returns {connected: true, message, user}.
C9_TestConnectionNeverRaises ==
  \A r \in Requests :
    ConnectionTested(r) =>
      /\ outcome[r].ok
      /\ IF requested[r].ok
         THEN outcome[r].value =
                JObj([connected |-> JBool(TRUE),
                      message |-> JStr("Successfully connected to Figma API"),
                      user |-> requested[r].value])
         ELSE outcome[r].value =
                JObj([connected |-> JBool(FALSE), message |-> requested[r].error.message])

\* testConnection() met a network failure and reported it.
C9_Witness ==
  \E r \in Requests :
    /\ ConnectionTested(r)
    /\ upstream[r] = NetworkFailure
    /\ outcome[r].ok
    /\ outcome[r].value.o.connected = JBool(FALSE)

\* C10: the output of every tool handler has the shape
\* {content: [{type: "text", text: string}], isError?: boolean}.
C10_EnvelopeShape ==
  \A r \in Requests :
    envelope[r] # None =>
      /\ "content" \in DOMAIN envelope[r]
      /\ DOMAIN envelope[r] \subseteq {"content", "isError"}
      /\ Len(envelope[r].content) = 1
      /\ envelope[r].content[1].type = "text"
      /\ envelope[r].content[1].text.t = "str"
      /\ "isError" \in DOMAIN envelope[r] => envelope[r].isError \in BOOLEAN

\* A tool handler was called for r and has returned.
HandlerReturned(r) ==
  /\ pc[r] = "done"
  /\ invocation[r] # None
  /\ invocation[r].tool # None

\* The envelope is a failure envelope whose text is the JSON serialisation
\* of an object {error, details}.
IsFailureEnvelope(e) ==
  /\ DOMAIN e = {"content", "isError"}
  /\ e.isError = TRUE
  /\ Len(e.content) = 1
  /\ e.content[1].type = "text"
  /\ e.content[1].text.t = "str"
  /\ "json" \in DOMAIN e.content[1].text
  /\ e.content[1].text.json.t = "obj"
  /\ DOMAIN e.content[1].text.json.o = {"error", "details"}

\* The envelope is a success envelope whose text is JSON.stringify(data).
IsSuccessEnvelope(e, data) ==
  /\ DOMAIN e = {"content"}
  /\ Len(e.content) = 1
  /\ e.content[1].type = "text"
  /\ e.content[1].text = JSONStringify(data)

\* C11 (as stated): for every registered tool, on success the text of the
\* envelope is the JSON serialisation of the raw result the client method
\* returned, and on failure it is the JSON serialisation of an object
\* {error, details} with isError true.
C11_Original ==
  \A r \in Requests :
    HandlerReturned(r) =>
      IF outcome[r].ok
      THEN IsSuccessEnvelope(envelope[r], outcome[r].value)
      ELSE IsFailureEnvelope(envelope[r])

\* C11 (amended): the tools that return the client's result serialise that
\* result; the tools whose client method returns nothing serialise
\* {success: true, message}; figma_test_connection serialises the report of
\* testConnection; every failure of a client method gives the JSON
\* serialisation of {error, details} with isError true.
C11_EnvelopeContents ==
  \A r \in Requests :
    HandlerReturned(r) =>
      LET tool == invocation[r].tool
      IN IF ~outcome[r].ok
         THEN /\ tool.onSuccess # "testConnection"
              /\ IsFailureEnvelope(envelope[r])
              /\ Get(envelope[r].content[1].text.json, "error").t = "str"
         ELSE CASE tool.onSuccess = "formatSuccess" ->
                     /\ tool.call.returns = "void"
                     /\ IsSuccessEnvelope(envelope[r],
                          JObj([success |-> JBool(TRUE), message |-> JStr(tool.message)]))
                [] tool.onSuccess = "testConnection" ->
                     /\ tool.name = "figma_test_connection"
                     /\ IsSuccessEnvelope(envelope[r], outcome[r].value)
                [] OTHER ->
                     /\ tool.call.returns = "value"
                     /\ IsSuccessEnvelope(envelope[r], outcome[r].value)
                     /\ AnsweredJson(r) =>
                          envelope[r].content[1].text.json = JSONParse(upstream[r].body).value

\* figma_create_webhook met a 500 and returned a failure envelope.
C11_Witness ==
  \E r \in Requests :
    /\ HandlerReturned(r)
    /\ invocation[r].tool.name = "figma_create_webhook"
    /\ upstream[r] # None /\ upstream[r] # NetworkFailure
    /\ upstream[r].status = 500
    /\ envelope[r].isError = TRUE

\* C12: no error escapes a tool handler: whatever error the client method
\* raises (a classified API error, the missing-token error, a network
\* failure, a body parse failure), the handler returns a failure envelope
\* with isError true.
C12_NoErrorEscapes ==
  \A r \in Requests :
    HandlerReturned(r) =>
      /\ "content" \in DOMAIN envelope[r]
      /\ "escaped" \notin DOMAIN envelope[r]
      /\ ~outcome[r].ok =>
           /\ "isError" \in DOMAIN envelope[r]
           /\ envelope[r].isError = TRUE

\* A handler met the missing-token error of its client and returned a
\* failure envelope.
C12_Witness ==
  \E r \in Requests :
    /\ HandlerReturned(r)
    /\ Tokenless(r)
    /\ ~outcome[r].ok
    /\ outcome[r].error.kind = "AuthenticationError"
    /\ envelope[r].isError = TRUE

\* The error is one of the kinds request() raises for a response.
Classifies(o) == ~o.ok /\ o.error.kind \in ClientErrorKinds

\* C13: the client never retries.  A method invocation issues at most one
\* upstream call; once request() has an outcome for the call, classified
\* errors (429 and 5xx too) included, the invocation is over and no call is
\* in flight, however many invocations went before on the same client.
C13_NoRetry ==
  \A r \in Requests :
    /\ upstreamCalls[r] <= 1
    /\ inflight[r] # None <=> pc[r] = "fetching"
    /\ pc[r] = "fetching" => upstreamCalls[r] = 1 /\ requested[r] = None
    /\ requested[r] # None =>
         /\ pc[r] = "done"
         /\ outcome[r] # None
         /\ Classifies(requested[r]) /\ upstream[r] # None => upstreamCalls[r] = 1

\* A call was answered 429 and is over, with one upstream call made.
C13_Witness ==
  \E r \in Requests :
    /\ Answered(r)
    /\ upstream[r].status = 429
    /\ requested[r].error.kind = "RateLimitError"
    /\ upstreamCalls[r] = 1

\* The request r arrived as a POST /mcp.
PostMcp(r) ==
  /\ inbound[r] # None
  /\ inbound[r].method = "POST"
  /\ inbound[r].pathname = "/mcp"

\* How many clients have been constructed for the requests so far.
ClientsHeld == Cardinality({r \in Requests : client[r] # None})

\* C14: on POST /mcp the credentials are parsed, then validated, and only
\* when validation succeeds is a client constructed from them, the tools
\* registered and the request handed to the MCP transport handler; when it
\* fails no client is constructed, no tool registered and the transport
\* handler not invoked.
C14_McpStepOrder ==
  /\ \A r \in Requests :
       PostMcp(r) =>
         LET credentials == parseTenantCredentials(inbound[r])
         IN IF validateCredentials(credentials).ok
            THEN /\ client[r] # None
                 /\ client[r].credentials = credentials
                 /\ registered[r] = {t.name : t \in RegisteredTools}
                 /\ handedOff[r]
                 /\ httpResponse[r] = None
            ELSE /\ client[r] = None
                 /\ registered[r] = {}
                 /\ ~handedOff[r]
                 /\ httpResponse[r] # None /\ httpResponse[r].status = 401
                 /\ pc[r] = "done"
  /\ \A r \in Requests : (handedOff[r] \/ registered[r] # {}) => PostMcp(r)
  /\ nextClientId = 1 + ClientsHeld

\* One POST /mcp was rejected for its missing token and another was
\* handed to the transport.
C14_Witness ==
  \E r, q \in Requests :
    /\ PostMcp(r) /\ client[r] = None /\ httpResponse[r] # None
    /\ PostMcp(q) /\ handedOff[q] /\ client[q] # None

\* The base URL a (possibly missing or empty) override leads to.
EffectiveBaseUrl(override) ==
  IF override \in {JUndefined, JNull, JStr("")} THEN "https://api.figma.com" ELSE override.s

\* C15: the base URL of a client is the X-Figma-Base-URL override when one
\* is provided (a non-empty value) and https://api.figma.com otherwise, and
\* every upstream URL the client issues is that base URL followed by the
\* endpoint path.
C15_BaseUrl ==
  \A r \in Requests :
    client[r] # None =>
      /\ client[r].baseUrl = EffectiveBaseUrl(client[r].credentials.baseUrl)
      /\ inbound[r] # None =>
           client[r].baseUrl = EffectiveBaseUrl(inbound[r].headers.XFigmaBaseURL)
      /\ inflight[r] # None =>
           inflight[r].url = client[r].baseUrl \o invocation[r].call.endpoint

\* A request with the override header has a call in flight to the override.
C15_Witness ==
  \E r \in Requests :
    /\ inbound[r] # None
    /\ inbound[r].headers.XFigmaBaseURL = JStr("https://proxy.example")
    /\ inflight[r] # None
    /\ inflight[r].url = "https://proxy.example/v1/files/abc123/comments"

\* The call in flight is one of a method that builds a query string.
BuildsQuery(r) == inflight[r] # None /\ "params" \in DOMAIN invocation[r].call

\* The option field `name` was supplied in the options given to the method.
Supplied(options, name) == Get(options, name) # JUndefined

\* The parameters a method sends from its own arguments, not from options.
ArgumentParams(method) == IF method \in {"getFileNodes", "getImages"} THEN {"ids"} ELSE {}

\* C16: for every method that takes an options structure, a query parameter
\* is in the URL only if its option field was supplied (an omitted field
\* never appears), the URL is the path followed by exactly the parameters
\* set, and when no parameter is set the URL is the bare path, without "?".
C16_OmittedFieldsNotSent ==
  \A r \in Requests :
    BuildsQuery(r) =>
      LET call == invocation[r].call
      IN  /\ \A i \in DOMAIN call.params :
                \/ call.params[i][1] \in ArgumentParams(call.method)
                \/ Supplied(call.given, call.params[i][1])
          /\ inflight[r].url =
                client[r].baseUrl \o call.path
                  \o (IF call.params = <<>> THEN "" ELSE "?" \o ParamsToString(call.params))

\* getFileVersions is in flight with a cursor and no page_size: the URL
\* carries the cursor only.
C16_Witness ==
  \E r \in Requests :
    /\ BuildsQuery(r)
    /\ invocation[r].call.method = "getFileVersions"
    /\ Supplied(invocation[r].call.given, "cursor")
    /\ ~Supplied(invocation[r].call.given, "page_size")
    /\ inflight[r].url = "https://api.figma.com/v1/files/abc123/versions?cursor=cur1"

\* The method called on r is getFile(k, {depth: d}), on a client that holds
\* a token.
GetFileDepthOnly(r, k, d) ==
  /\ invocation[r] # None
  /\ invocation[r].call.method = "getFile"
  /\ invocation[r].call.path = "/v1/files/" \o k
  /\ invocation[r].call.given = JObj([depth |-> JNum(d)])
  /\ ~Tokenless(r)

CreatesWebhook(r) ==
  /\ invocation[r] # None
  /\ invocation[r].call.method = "createWebhook"
  /\ ~Tokenless(r)

StaticStatus == JObj([status |-> JStr("ok"), server |-> JStr("primrose-mcp-figma")])

\* C19: route dispatch.  Every request to /health, whatever its method and
\* headers, gets 200 with the static status JSON; every request to /sse gets
\* 501; every request to any other path, and every request to /mcp that is
\* not a POST, gets the static discovery document with 200.  For none of
\* them is a client constructed, a tool registered, the MCP transport
\* handler reached or an upstream call issued, and the response does not
\* depend on the credential headers.
C19_RouteDispatch ==
  \A r \in Requests :
    (inbound[r] # None /\ ~PostMcp(r)) =>
      /\ pc[r] = "done"
      /\ httpResponse[r] # None
      /\ CASE inbound[r].pathname = "/health" ->
                httpResponse[r] = HttpResponse(200, StaticStatus)
           [] inbound[r].pathname = "/sse" -> httpResponse[r].status = 501
           [] OTHER -> httpResponse[r] = DiscoveryResponse
      /\ client[r] = None
      /\ registered[r] = {}
      /\ ~handedOff[r]
      /\ invocation[r] = None
      /\ inflight[r] = None
      /\ upstreamCalls[r] = 0

\* A GET of /mcp that carries a token was answered with the discovery
\* document, and no client was built for it.
C19_Witness ==
  \E r \in Requests :
    /\ inbound[r] # None
    /\ inbound[r].pathname = "/mcp"
    /\ inbound[r].method = "GET"
    /\ inbound[r].headers.XFigmaToken = JStr("tokA")
    /\ httpResponse[r] = DiscoveryResponse
    /\ client[r] = None

\* C20: the stateful mode is always rejected.  Every call of
\* FigmaMcpAgent.init() throws an Error whose message says that the stateful
\* mode is not supported and names the stateless /mcp endpoint with the
\* X-Figma-Token header; it registers no tool and constructs no client, and
\* nothing is called upstream for it.
C20_StatefulModeRejected ==
  \A r \in Requests :
    agentInit[r] # None =>
      /\ ~agentInit[r].ok
      /\ agentInit[r].error.kind = "Error"
      /\ agentInit[r].error.message =
           JStr("Stateful mode (McpAgent) is not supported for multi-tenant deployments. Use the stateless /mcp endpoint with X-Figma-Token header instead.")
      /\ registered[r] = {}
      /\ client[r] = None
      /\ invocation[r] = None
      /\ upstreamCalls[r] = 0

\* An agent was started and its init() has thrown.
C20_Witness ==
  \E r \in Requests :
    /\ agentInit[r] # None
    /\ ~agentInit[r].ok
    /\ pc[r] = "done"
    /\ inbound[r] = None

\* The request r was answered with the discovery document of the default
\* route.
Discovered(r) ==
  /\ httpResponse[r] # None
  /\ httpResponse[r].body.t = "obj"
  /\ "tools" \in DOMAIN httpResponse[r].body.o

\* C21: the set of tool names the discovery document lists equals the set
\* of tool names createStatelessServer registers: no registered tool is
\* missing from the document and no listed name is unregistered, whatever
\* the credentials the server is built for.
C21_DiscoveryListsRegistered ==
  \A r \in Requests :
    Discovered(r) =>
      /\ \A credentials \in CredentialsSet :
           httpResponse[r].body.o.tools =
             {t.name : t \in createStatelessServer(0, credentials).tools}
      /\ \A q \in Requests : handedOff[q] => registered[q] = httpResponse[r].body.o.tools

\* One request got the discovery document while another has its server
\* built, with the 44 tools registered.
C21_Witness ==
  \E r, q \in Requests :
    /\ Discovered(r)
    /\ handedOff[q]
    /\ Cardinality(registered[q]) = 44
    /\ "figma_test_connection" \in httpResponse[r].body.o.tools

\* C22: every tool name the README lists under "Available Tools" is
\* registered on the server built for a POST /mcp request, and so can be
\* called through /mcp.
C22_ReadmeToolsRegistered ==
  \A r \in Requests : handedOff[r] => ReadmeTools \subseteq registered[r]

\* C23: the credentials and the resolved base URL of a client instance are
\* immutable for its lifetime.  A client holds its credentials and the base
\* URL resolved from them and nothing else (besides its identity), and no
\* step of any method, whatever its outcome, and no sequence of calls
\* changes the client once it is constructed.
C23_ClientImmutable ==
  /\ [](\A r \in Requests :
         client[r] # None =>
           /\ DOMAIN client[r] = {"id", "credentials", "baseUrl"}
           /\ client[r].baseUrl = EffectiveBaseUrl(client[r].credentials.baseUrl))
  /\ [][\A r \in Requests : client[r] # None => client'[r] = client[r]]_vars

\* A client built with a token and a base URL override has had a call
\* answered 401 and still holds both.
C23_Witness ==
  \E r \in Requests :
    /\ Answered(r)
    /\ upstream[r].status = 401
    /\ inbound[r] = None
    /\ client[r].credentials.accessToken = JStr("tokA")
    /\ client[r].baseUrl = "https://proxy.example"

\* The tool run for r is figma_post_comment.
PostsComment(r) ==
  /\ invocation[r] # None
  /\ invocation[r].tool # None
  /\ invocation[r].tool.name = "figma_post_comment"

\* A position was given: node_id is non-empty, or x or y is provided.
PositionGiven(args) ==
  \/ (args.node_id # JUndefined /\ args.node_id # JStr(""))
  \/ args.x # JUndefined
  \/ args.y # JUndefined

\* C24: figma_post_comment passes client_meta = {node_id, x, y} to
\* postComment exactly when node_id is non-empty or x is provided or y is
\* provided (0 counts as provided), and passes no client_meta otherwise;
\* the POST body then carries a client_meta key exactly in the first case.
C24_ClientMeta ==
  \A r \in Requests :
    PostsComment(r) =>
      LET args == invocation[r].tool.args
          passed == Get(invocation[r].call.given, "client_meta")
      IN  /\ PositionGiven(args) =>
                passed = JObj([node_id |-> args.node_id, x |-> args.x, y |-> args.y])
          /\ ~PositionGiven(args) => passed = JUndefined
          /\ inflight[r] # None =>
                /\ FetchMethod(inflight[r]) = "POST"
                /\ "client_meta" \in DOMAIN inflight[r].body.json.o <=> PositionGiven(args)

\* figma_post_comment was called with x = 0 alone: the body in flight has a
\* client_meta holding x = 0 only.
C24_Witness ==
  \E r \in Requests :
    /\ PostsComment(r)
    /\ invocation[r].tool.args.x = JNum(0)
    /\ invocation[r].tool.args.y = JUndefined
    /\ invocation[r].tool.args.node_id = JUndefined
    /\ inflight[r] # None
    /\ inflight[r].body.json.o.client_meta = JObj([x |-> JNum(0)])

\* The inbound request of r with its X-Figma-Token header taken away.
WithoutToken(request) == [request EXCEPT !.headers.XFigmaToken = JNull]

\* C25: an X-Figma-Token header that is present but empty is treated
\* exactly like an absent one: parseTenantCredentials yields the same
\* credentials, with accessToken undefined, and a POST /mcp is answered
\* with the same 401, without a client, a hand-off or an upstream call.
\* An empty X-Figma-Base-URL yields baseUrl undefined, and the client built
\* for the request calls the default base URL.
C25_EmptyHeaders ==
  \A r \in Requests :
    inbound[r] # None =>
      /\ inbound[r].headers.XFigmaToken = JStr("") =>
           /\ parseTenantCredentials(inbound[r]).accessToken = JUndefined
           /\ parseTenantCredentials(inbound[r]) = parseTenantCredentials(WithoutToken(inbound[r]))
           /\ PostMcp(r) =>
                /\ httpResponse[r] # None
                /\ httpResponse[r].status = 401
                /\ httpResponse[r] =
                     UnauthorizedResponse(
                       validateCredentials(parseTenantCredentials(WithoutToken(inbound[r]))).error)
                /\ client[r] = None
                /\ ~handedOff[r]
                /\ upstreamCalls[r] = 0
                /\ inflight[r] = None
      /\ inbound[r].headers.XFigmaBaseURL = JStr("") =>
           /\ parseTenantCredentials(inbound[r]).baseUrl = JUndefined
           /\ client[r] # None => client[r].baseUrl = "https://api.figma.com"
           /\ inflight[r] # None =>
                inflight[r].url = "https://api.figma.com" \o invocation[r].call.endpoint

\* A POST /mcp with an empty token was answered 401 while a request with an
\* empty base URL header has a call in flight to the default base URL.
C25_Witness ==
  \E r, q \in Requests :
    /\ PostMcp(r)
    /\ inbound[r].headers.XFigmaToken = JStr("")
    /\ httpResponse[r] # None /\ httpResponse[r].status = 401
    /\ PostMcp(q)
    /\ inbound[q].headers.XFigmaBaseURL = JStr("")
    /\ inflight[q] # None
    /\ inflight[q].url = "https://api.figma.com/v1/me"

\* The request r is to /mcp with a method other than POST.
McpNotPost(r) ==
  /\ inbound[r] # None
  /\ inbound[r].pathname = "/mcp"
  /\ inbound[r].method # "POST"

\* C26: credentials are checked for POST /mcp only.  A request to /mcp with
\* another method, with or without (or with an empty) X-Figma-Token, is
\* never answered 401 and never handed to the MCP transport handler: it is
\* answered 200 with the static discovery document, the same one whatever
\* its headers.
C26_CredentialCheckOnlyOnPost ==
  \A r \in Requests :
    McpNotPost(r) =>
      /\ httpResponse[r] # None
      /\ httpResponse[r].status # 401
      /\ httpResponse[r].status = 200
      /\ httpResponse[r] = DiscoveryResponse
      /\ ~handedOff[r]
      /\ pc[r] = "done"

\* A DELETE of /mcp without a token was answered with the discovery
\* document.
C26_Witness ==
  \E r \in Requests :
    /\ McpNotPost(r)
    /\ inbound[r].method = "DELETE"
    /\ inbound[r].headers.XFigmaToken = JNull
    /\ httpResponse[r] = DiscoveryResponse

\* The figma_test_connection tool was called for r and its handler has
\* returned.
ConnectionToolDone(r) ==
  /\ pc[r] = "done"
  /\ invocation[r] # None
  /\ invocation[r].tool # None
  /\ invocation[r].tool.name = "figma_test_connection"

\* C27: the figma_test_connection tool never returns an envelope with
\* isError.  Whatever became of the upstream call (a 2xx, 401, 403, 404,
\* 429, 5xx, an unparseable body, a network failure), its envelope has no
\* isError and its text is the JSON of an object with connected and
\* message, and user at most besides; connected is false when the call
\* failed and true when it succeeded.
C27_ConnectionToolNeverErrors ==
  \A r \in Requests :
    ConnectionToolDone(r) =>
      /\ envelope[r] # None
      /\ "isError" \notin DOMAIN envelope[r]
      /\ LET text == envelope[r].content[1].text
         IN  /\ text.t = "str"
             /\ "json" \in DOMAIN text
             /\ text.json.t = "obj"
             /\ {"connected", "message"} \subseteq DOMAIN text.json.o
             /\ DOMAIN text.json.o \subseteq {"connected", "message", "user"}
             /\ text.json.o.connected = JBool(requested[r].ok)

\* The tool was called, the upstream answered 429, and the envelope reports
\* connected false without isError.
C27_Witness ==
  \E r \in Requests :
    /\ ConnectionToolDone(r)
    /\ Answered(r)
    /\ upstream[r].status = 429
    /\ "isError" \notin DOMAIN envelope[r]
    /\ envelope[r].content[1].text.json.o.connected = JBool(FALSE)

\* The call of r was answered 2xx, not 204, with a body that is empty or
\* not valid JSON.
AnsweredUnparseable(r) ==
  /\ Answered(r)
  /\ upstream[r].status \in 200..299
  /\ upstream[r].status # 204
  /\ upstream[r].body \in NonJsonBodies

\* C28: for a 2xx response other than 204 whose body is empty or not valid
\* JSON, a value-returning client method throws the parse error of the
\* runtime, which is none of the client's five error kinds, and the handler
\* of the tool, when one was called, returns a failure envelope: isError
\* true and the JSON of {error, details} as text.
C28_UnparseableBody ==
  \A r \in Requests :
    (AnsweredUnparseable(r) /\ invocation[r].call.returns = "value") =>
      /\ ~outcome[r].ok
      /\ outcome[r].error.kind = "SyntaxError"
      /\ outcome[r].error.kind \notin ClientErrorKinds
      /\ invocation[r].tool # None =>
           /\ IsFailureEnvelope(envelope[r])
           /\ envelope[r].content[1].text.json.o.error =
                JStr("Error: " \o String(outcome[r].error.message))

\* figma_get_file was answered 200 with an empty body and returned a
\* failure envelope.
C28_Witness ==
  \E r \in Requests :
    /\ AnsweredUnparseable(r)
    /\ upstream[r].status = 200
    /\ upstream[r].body = ""
    /\ invocation[r].tool # None
    /\ invocation[r].tool.name = "figma_get_file"
    /\ envelope[r].isError = TRUE

\* C29: liveness.  Provided the awaited fetch eventually settles, every
\* tool invocation eventually returns an envelope, and exactly one: once
\* returned it is not replaced.  The client has no timeout of its own: an
\* invocation that awaits fetch leaves that state only when fetch settles,
\* with a response or a failure, so a fetch that never settles leaves it
\* pending.
C29_InvocationReturns ==
  /\ \A r \in Requests :
       (invocation[r] # None)
         ~> (pc[r] = "done" /\ envelope[r] # None /\ "content" \in DOMAIN envelope[r])
  /\ [][\A r \in Requests :
          /\ (pc[r] = "fetching" /\ pc'[r] # "fetching") =>
                (upstream[r] = None /\ upstream'[r] # None /\ pc'[r] = "done")
          /\ envelope[r] # None => envelope'[r] = envelope[r]]_vars

\* A tool invocation whose fetch failed has returned its envelope.
C29_Witness ==
  \E r \in Requests :
    /\ pc[r] = "done"
    /\ invocation[r] # None
    /\ upstream[r] = NetworkFailure
    /\ envelope[r] # None
    /\ "content" \in DOMAIN envelope[r]

\* The option field `name` holding `value` makes the method send a
\* parameter: depth and scale whenever defined, every other field when
\* truthy.
Sent(name, value) ==
  IF name \in {"depth", "scale"} THEN value # JUndefined ELSE Truthy(value)

\* The options with every field that sends nothing left out.
LeftOut(options) ==
  IF options.t # "obj" THEN JObj(<<>>)
  ELSE JObj([name \in {n \in DOMAIN options.o : Sent(n, options.o[n])} |-> options.o[name]])

\* C30: falsy option values are treated as omitted.  The parameters a
\* method sends are those of its own arguments and the option fields that
\* are truthy, plus depth and scale whenever they are defined (0 included):
\* a boolean option given as false, an empty string and a page_size or limit
\* of 0 send nothing, and the URL is exactly the URL of the call that leaves
\* these fields out.
C30_FalsyOmitted ==
  \A r \in Requests :
    BuildsQuery(r) =>
      LET call == invocation[r].call
      IN  /\ {call.params[i][1] : i \in DOMAIN call.params} =
                ArgumentParams(call.method)
                \cup (IF call.given.t = "obj"
                      THEN {n \in DOMAIN call.given.o : Sent(n, call.given.o[n])}
                      ELSE {})
          /\ \A other \in OptionCalls :
                ( /\ "params" \in DOMAIN other
                  /\ other.method = call.method
                  /\ other.path = call.path
                  /\ other.given = LeftOut(call.given)
                  /\ (ArgumentParams(call.method) = {} \/ other.params[1] = call.params[1]) )
                => inflight[r].url = client[r].baseUrl \o other.endpoint

\* getImages is in flight with a scale of 0 and svg_include_id and
\* contents_only false: the URL carries ids and scale=0 only.
C30_Witness ==
  \E r \in Requests :
    /\ BuildsQuery(r)
    /\ invocation[r].call.method = "getImages"
    /\ Get(invocation[r].call.given, "svg_include_id") = JBool(FALSE)
    /\ Get(invocation[r].call.given, "scale") = JNum(0)
    /\ LeftOut(invocation[r].call.given) = JObj([scale |-> JNum(0)])
    /\ inflight[r].url = "https://api.figma.com/v1/images/abc123?ids=1%3A2&scale=0"

====
